---- MODULE Spec2Model ----
(***************************************************************************)
(* State-machine model of the BankTools_AI prediction core: the hand-      *)
(* rolled LogisticRegression (shared/base_model.py), and the predictor     *)
(* pipelines built on it (churn/churn_model_clean.py, churn_model.py,      *)
(* loan/loan_model_clean.py, loan_model.py, improved_loan_model.py) with   *)
(* the batch churn upload of admin/routes.py.                              *)
(*                                                                         *)
(* float64 values are held in fixed point: a value v is the integer        *)
(* v * SCALE, a cross-entropy cost is the integer cost * 1000.  An         *)
(* Optional value (Python None or a value) is a sequence of length 0 or 1. *)
(***************************************************************************)
EXTENDS Integers, Sequences, FiniteSets, TLC

VARIABLES
    clf,     \* a LogisticRegression object used on its own
    call,    \* the last call made on clf and what it returned
    kind,    \* the predictor class the pipeline objects are instances of
    pred,    \* the predictor objects
    disk,    \* the model file: a joblib blob, or no file
    ret,     \* the last call made on a predictor and what it returned
    dq       \* the caller's dataset and the last data-quality call made on it

vars == <<clf, call, kind, pred, disk, ret, dq>>

\* ------------------------------------------------------------------------
\* Bounds of the model
\* ------------------------------------------------------------------------

\* the largest max_iterations a classifier of the model is constructed with
MaxIter == 3

\* the longest cost_history the model lets a classifier accumulate
MaxHistory == 2 * MaxIter

\* ------------------------------------------------------------------------
\* Fixed-point arithmetic
\* ------------------------------------------------------------------------

\* np.float64: one unit of a fixed-point value is 1/SCALE
SCALE == 100

None == <<>>
Some(x) == <<x>>
IsNone(o) == Len(o) = 0
IsSome(o) == Len(o) = 1

\* a sequence and a dict built by comprehension, evaluated once
Array(q) == q \o <<>>
Dict(f) == f @@ <<>>

Abs(a) == IF a < 0 THEN -a ELSE a

\* a / b rounded to the nearest integer, halves away from zero (b > 0)
RoundDiv(a, b) ==
    IF a >= 0 THEN (2 * a + b) \div (2 * b) ELSE -((2 * (-a) + b) \div (2 * b))

\* floor of the square root of n >= 0, by bisection on [lo, hi]
RECURSIVE ISqrtBetween(_, _, _)
ISqrtBetween(n, lo, hi) ==
    IF lo >= hi THEN lo
    ELSE LET mid == (lo + hi + 1) \div 2
         IN  IF mid * mid <= n THEN ISqrtBetween(n, mid, hi)
             ELSE ISqrtBetween(n, lo, mid - 1)

ISqrt(n) == ISqrtBetween(n, 0, IF n < 46340 THEN n ELSE 46340)

\* np.nan: the value of a mean over no rows, and of anything computed from it
NaN == -1000000000
IsNaN(v) == v = NaN

\* a >= b and a > b on float64: any comparison with nan is False
Ge(a, b) == ~IsNaN(a) /\ ~IsNaN(b) /\ a >= b
Gt(a, b) == ~IsNaN(a) /\ ~IsNaN(b) /\ a > b

RECURSIVE SumSeq(_)
SumSeq(s) == IF Len(s) = 0 THEN 0 ELSE Head(s) + SumSeq(Tail(s))

\* np.dot of two fixed-point vectors, as a fixed-point value
Dot(x, w) ==
    IF \E j \in 1..Len(x) : IsNaN(x[j]) THEN NaN
    ELSE RoundDiv(SumSeq([j \in 1..Len(x) |-> x[j] * w[j]]), SCALE)

\* a + b on float64
Plus(a, b) == IF IsNaN(a) \/ IsNaN(b) THEN NaN ELSE a + b

\* ------------------------------------------------------------------------
\* LogisticRegression (shared/base_model.py, and its copy in loan_model.py)
\* ------------------------------------------------------------------------

\* 1 / (1 + exp(-k)) for k = 0..6, in fixed point
SigmoidKnots == <<50, 73, 88, 95, 98, 99, 100>>

\* sigmoid of z >= 0: linear between the integer knots, 1.0 from z = 6 on
SigmoidPos(z) ==
    LET k == z \div SCALE
        f == z % SCALE
    IN  IF k >= 6 THEN SCALE
        ELSE SigmoidKnots[k + 1]
               + RoundDiv((SigmoidKnots[k + 2] - SigmoidKnots[k + 1]) * f, SCALE)

\* LogisticRegression.sigmoid: z clipped to [-500, 500], then 1/(1+exp(-z))
Sigmoid(z) ==
    IF IsNaN(z) THEN NaN ELSE
    LET c == IF z < -500 * SCALE THEN -500 * SCALE
             ELSE IF z > 500 * SCALE THEN 500 * SCALE ELSE z
    IN  IF c >= 0 THEN SigmoidPos(c) ELSE SCALE - SigmoidPos(-c)

\* -log(p) * 1000 for p = 0/SCALE .. SCALE/SCALE, p clipped to
\* [1e-15, 1 - 1e-15] first (the epsilon of _compute_cost)
NegLogTable ==
    <<34539, 4605, 3912, 3507, 3219, 2996, 2813, 2659, 2526, 2408, 2303,
      2207, 2120, 2040, 1966, 1897, 1833, 1772, 1715, 1661, 1609, 1561,
      1514, 1470, 1427, 1386, 1347, 1309, 1273, 1238, 1204, 1171, 1139,
      1109, 1079, 1050, 1022, 994, 968, 942, 916, 892, 868, 844, 821, 799,
      777, 755, 734, 713, 693, 673, 654, 635, 616, 598, 580, 562, 545, 528,
      511, 494, 478, 462, 446, 431, 416, 400, 386, 371, 357, 342, 329, 315,
      301, 288, 274, 261, 248, 236, 223, 211, 198, 186, 174, 163, 151, 139,
      128, 117, 105, 94, 83, 73, 62, 51, 41, 30, 20, 10, 0>>

NegLog(p) == NegLogTable[p + 1]

\* LogisticRegression.__init__
NewLogisticRegression(learning_rate, max_iterations, tolerance) ==
    [learning_rate |-> learning_rate, max_iterations |-> max_iterations,
     tolerance |-> tolerance, weights |-> None, bias |-> None,
     cost_history |-> <<>>]

\* the forward pass: sigmoid(X.dot(weights) + bias), one value per row
Forward(X, w, b) == Array([r \in 1..Len(X) |-> Sigmoid(Plus(Dot(X[r], w), b))])

\* LogisticRegression._compute_cost: mean cross-entropy, in 1/1000
ComputeCost(y_true, y_pred) ==
    RoundDiv(SumSeq([r \in 1..Len(y_true) |->
                 y_true[r] * NegLog(y_pred[r])
                   + (1 - y_true[r]) * NegLog(SCALE - y_pred[r])]),
             Len(y_true))

\* LogisticRegression._compute_weighted_cost
ComputeWeightedCost(y_true, y_pred, sw) ==
    RoundDiv(SumSeq([r \in 1..Len(y_true) |->
                 sw[r] * (y_true[r] * NegLog(y_pred[r])
                            + (1 - y_true[r]) * NegLog(SCALE - y_pred[r]))]),
             SCALE * Len(y_true))

\* the error term predictions - y of one row, in fixed point
RowError(y, predictions, r) == predictions[r] - y[r] * SCALE

\* one gradient step on (w, b) with per-row weights sw (all 1.0 in fit)
StepWeights(X, y, sw, predictions, w, lr) ==
    LET m == Len(X)
        dw == Array([j \in 1..Len(w) |->
                 RoundDiv(SumSeq([r \in 1..m |->
                     X[r][j] * RoundDiv(RowError(y, predictions, r) * sw[r], SCALE)]),
                   SCALE * m)])
    IN  Array([j \in 1..Len(w) |-> w[j] - RoundDiv(lr * dw[j], SCALE)])

StepBias(y, sw, predictions, b, lr) ==
    LET m == Len(y)
        db == RoundDiv(SumSeq([r \in 1..m |->
                 RoundDiv(RowError(y, predictions, r) * sw[r], SCALE)]), m)
    IN  b - RoundDiv(lr * db, SCALE)

Ones(m) == Array([r \in 1..m |-> SCALE])

\* the convergence test of the loop: abs(prev_cost - cost) < tolerance,
\* prev_cost being float('inf') (None here) before the first iteration
NeverConverged(prev_cost, cost, tolerance) == FALSE

Converged(prev_cost, cost, tolerance) ==
    IsSome(prev_cost) /\ Abs(prev_cost[1] - cost) < tolerance

\* the for-loop of fit / fit_weighted from iteration i on; weighted selects
\* _compute_weighted_cost.  Each iteration appends its cost, updates the
\* parameters, and then tests for convergence.
RECURSIVE GradientDescent(_, _, _, _, _, _, _)
GradientDescent(self, X, y, sw, weighted, prev_cost, i) ==
    IF i >= self.max_iterations THEN self
    ELSE LET Checked(cost, upd) ==
                 IF Converged(prev_cost, cost, self.tolerance) THEN upd
                 ELSE GradientDescent(upd, X, y, sw, weighted, Some(cost), i + 1)
             Updated(predictions, cost) ==
                 Checked(cost,
                     [self EXCEPT
                        !.cost_history = Append(@, cost),
                        !.weights = Some(StepWeights(X, y, sw, predictions,
                                                     self.weights[1], self.learning_rate)),
                        !.bias = Some(StepBias(y, sw, predictions,
                                               self.bias[1], self.learning_rate))])
             Costed(predictions) ==
                 Updated(predictions,
                     IF weighted THEN ComputeWeightedCost(y, predictions, sw)
                     ELSE ComputeCost(y, predictions))
         IN  Costed(Forward(X, self.weights[1], self.bias[1]))

\* the outcome of a call: the object after it, and the exception it raised
Returned(obj) == [raised |-> "", obj |-> obj]
Raised(obj, exc) == [raised |-> exc, obj |-> obj]

\* LogisticRegression.fit(X, y), w0 being the np.random.normal draw.  With
\* no rows, 1/m in _compute_cost raises ZeroDivisionError in iteration 0,
\* after weights and bias were initialised.
Fit(self, X, y, w0) ==
    LET init == [self EXCEPT !.weights = Some(w0), !.bias = Some(0)]
    IN  IF Len(X) = 0 /\ self.max_iterations > 0
        THEN Raised(init, "ZeroDivisionError")
        ELSE Returned(GradientDescent(init, X, y, Ones(Len(X)), FALSE, None, 0))

\* sample_weights / np.sum(sample_weights) * m
NormalizeSampleWeights(sw) ==
    Array([r \in 1..Len(sw) |-> RoundDiv(sw[r] * SCALE * Len(sw), SumSeq(sw))])

\* LogisticRegression.fit_weighted(X, y, sample_weights)
FitWeighted(self, X, y, sample_weights, w0) ==
    LET init == [self EXCEPT !.weights = Some(w0), !.bias = Some(0)]
    IN  IF Len(X) = 0 /\ self.max_iterations > 0
        THEN Raised(init, "ZeroDivisionError")
        ELSE Returned(GradientDescent(init, X, y,
                          NormalizeSampleWeights(sample_weights), TRUE, None, 0))

\* LogisticRegression.predict_proba(X)
PredictProba(self, X) == Forward(X, self.weights[1], self.bias[1])

\* LogisticRegression.predict(X): (probabilities >= 0.5).astype(int)
PredictStrict(self, X) ==
    LET probabilities == PredictProba(self, X)
    IN  [r \in 1..Len(X) |-> IF Gt(probabilities[r], SCALE \div 2) THEN 1 ELSE 0]

Predict(self, X) ==
    LET probabilities == PredictProba(self, X)
    IN  [r \in 1..Len(X) |-> IF Ge(probabilities[r], SCALE \div 2) THEN 1 ELSE 0]

\* ------------------------------------------------------------------------
\* DataFrames: cols is the column order, rows[i][c] the cell of row i in
\* column c.  Numbers are held as written in the file (a CreditScore of 650
\* is 650) except in the columns of FixedPointColumns.
\* ------------------------------------------------------------------------

\* the object-dtype (string) columns of the model's datasets
ObjectColumns ==
    {"CustomerId", "Surname", "CustomerName", "Geography", "Gender", "Loan_ID",
     "Married", "Education", "Self_Employed", "Property_Area", "Loan_Status",
     "purpose", "Notes"}

\* the derived columns whose cells are fractions
FixedPointColumns == {"BalanceToSalaryRatio", "ProductUtilization", "employment_years"}

\* the strings of the model in sorted() order
Alphabetical ==
    <<" ", " Male", "?", "Auto Loan", "Female", "France", "Germany", "Graduate",
      "Growing", "Home Purchase", "Home Refinance", "Loyal", "Male", "Mature",
      "N", "N/A", "New", "No", "Not Graduate", "Personal Loan", "Personal/Other",
      "Rural", "Semiurban", "Spain", "Urban", "Vacation", "Y", "Yes", "male",
      "n/a">>

Rank(str) == CHOOSE i \in 1..Len(Alphabetical) : Alphabetical[i] = str

SeqToSet(q) == { q[i] : i \in 1..Len(q) }

\* sorted(values) for a set of strings
RECURSIVE SortStrings(_)
SortStrings(S) ==
    IF S = {} THEN <<>>
    ELSE LET least == CHOOSE v \in S : \A u \in S : Rank(v) <= Rank(u)
         IN  <<least>> \o SortStrings(S \ {least})

HasCol(df, c) == c \in SeqToSet(df.cols)

\* df.drop(columns, axis=1), for columns that may be absent
DropCols(df, S) ==
    [cols |-> SelectSeq(df.cols, LAMBDA c : c \notin S),
     rows |-> Array([i \in 1..Len(df.rows) |->
                 Dict([k \in DOMAIN df.rows[i] \ S |-> df.rows[i][k]])])]

\* df[c] = f, f[i] being the new cell of row i: a new column goes last
SetCol(df, c, f) ==
    [cols |-> IF HasCol(df, c) THEN df.cols ELSE Append(df.cols, c),
     rows |-> Array([i \in 1..Len(df.rows) |->
                 Dict([k \in DOMAIN df.rows[i] \cup {c} |->
                     IF k = c THEN f[i] ELSE df.rows[i][k]])])]

\* pd.get_dummies(df, columns=cs, prefix=cs): each listed column is replaced
\* by one indicator column per value it takes, in sorted order, after the
\* columns that are left alone
DummyName(c, v) == c \o "_" \o v

RECURSIVE GetDummies(_, _)
GetDummies(df, cs) ==
    IF Len(cs) = 0 THEN df
    ELSE LET Indicators(c, names) ==
                 [cols |-> SelectSeq(df.cols, LAMBDA x : x # c) \o names,
                  rows |-> Array([i \in 1..Len(df.rows) |->
                     Dict([k \in (DOMAIN df.rows[i] \ {c}) \cup SeqToSet(names) |->
                         IF k \in SeqToSet(names)
                         THEN (IF k = DummyName(c, df.rows[i][c]) THEN 1 ELSE 0)
                         ELSE df.rows[i][k]])])]
             Categories(c, cats) ==
                 Indicators(c, Array([k \in 1..Len(cats) |-> DummyName(c, cats[k])]))
         IN  GetDummies(Categories(Head(cs),
                            SortStrings({ df.rows[i][Head(cs)] : i \in 1..Len(df.rows) })),
                        Tail(cs))

\* a cell as a float64
ToFloat(c, v) == IF c \in FixedPointColumns THEN v ELSE v * SCALE

\* df[names].values as a float64 matrix
Values(df, names) ==
    Array([i \in 1..Len(df.rows) |->
        Array([j \in 1..Len(names) |-> ToFloat(names[j], df.rows[i][names[j]])])])

\* ------------------------------------------------------------------------
\* ChurnFeatureEngineer.create_churn_features
\* ------------------------------------------------------------------------

\* pd.cut(x, bins).codes: the index of the right-closed bin holding x, -1 for
\* a value outside every bin
CutCode(x, bins) ==
    IF \E k \in 1..(Len(bins) - 1) : bins[k] < x /\ x <= bins[k + 1]
    THEN (CHOOSE k \in 1..(Len(bins) - 1) : bins[k] < x /\ x <= bins[k + 1]) - 1
    ELSE -1

AgeBins == <<0, 25, 35, 50, 65, 100>>
CreditBins == <<0, 580, 670, 740, 800, 850>>

LifecycleStage(tenure) ==
    IF tenure < 2 THEN "New"
    ELSE IF tenure < 5 THEN "Growing"
    ELSE IF tenure < 10 THEN "Mature" ELSE "Loyal"

\* pd.Categorical(values).codes of a string column: the position of each
\* value among the sorted values present in the column
CategoricalCodes(values) ==
    LET Codes(cats) ==
            Array([i \in 1..Len(values) |->
                (CHOOSE k \in 1..Len(cats) : cats[k] = values[i]) - 1])
    IN  Codes(SortStrings(SeqToSet(values)))

CreateChurnFeatures(df) ==
    LET BalanceToSalaryRatio(d) ==
            IF HasCol(d, "Balance") /\ HasCol(d, "EstimatedSalary")
            THEN SetCol(d, "BalanceToSalaryRatio",
                   [i \in 1..Len(d.rows) |->
                      RoundDiv(d.rows[i]["Balance"] * SCALE,
                               d.rows[i]["EstimatedSalary"] + 1)])
            ELSE d
        AgeGroup(d) ==
            IF HasCol(d, "Age")
            THEN SetCol(d, "AgeGroup",
                   [i \in 1..Len(d.rows) |-> CutCode(d.rows[i]["Age"], AgeBins)])
            ELSE d
        CreditCategory(d) ==
            IF HasCol(d, "CreditScore")
            THEN SetCol(d, "CreditCategory",
                   [i \in 1..Len(d.rows) |-> CutCode(d.rows[i]["CreditScore"], CreditBins)])
            ELSE d
        CustomerLifecycleStage(d) ==
            IF HasCol(d, "Tenure") /\ HasCol(d, "Age")
            THEN SetCol(d, "CustomerLifecycleStage",
                   CategoricalCodes([i \in 1..Len(d.rows) |->
                       LifecycleStage(d.rows[i]["Tenure"])]))
            ELSE d
        ProductUtilization(d) ==
            IF HasCol(d, "NumOfProducts") /\ HasCol(d, "Balance")
            THEN SetCol(d, "ProductUtilization",
                   [i \in 1..Len(d.rows) |->
                      IF d.rows[i]["NumOfProducts"] > 0
                      THEN RoundDiv(d.rows[i]["Balance"] * SCALE,
                                    d.rows[i]["NumOfProducts"])
                      ELSE 0])
            ELSE d
    IN  ProductUtilization(CustomerLifecycleStage(CreditCategory(AgeGroup(
            BalanceToSalaryRatio(df)))))

\* ------------------------------------------------------------------------
\* LoanFeatureEngineer.create_aligned_features
\* ------------------------------------------------------------------------

\* row.get(c, default)
Get(row, c, default) == IF c \in DOMAIN row THEN row[c] ELSE default

\* LoanFeatureEngineer._determine_purpose
DeterminePurpose(row) ==
    LET loan_amount == Get(row, "LoanAmount", 0)
    IN  IF loan_amount >= 300 THEN "Home Purchase"
        ELSE IF loan_amount >= 200 THEN "Home Refinance"
        ELSE IF loan_amount >= 100 THEN "Auto Loan"
        ELSE IF loan_amount >= 50 THEN "Personal Loan"
        ELSE "Personal/Other"

\* LoanFeatureEngineer._estimate_employment_years, in fixed point
EstimateEmploymentYears(row) ==
    LET AtMost40(base_years) ==
            IF base_years < 40 * SCALE THEN base_years ELSE 40 * SCALE
        Years(income, education, age_proxy) ==
            AtMost40((2 + (IF income >= 20000 THEN 8
                           ELSE IF income >= 15000 THEN 6
                           ELSE IF income >= 10000 THEN 4
                           ELSE IF income >= 5000 THEN 2 ELSE 0)
                        + (IF education = "Graduate" THEN 2 ELSE 0)) * SCALE
                     + (age_proxy * 3 * SCALE) \div 2)
    IN  Years(Get(row, "ApplicantIncome", 0), Get(row, "Education", "Graduate"),
              Get(row, "Dependents", 0))

\* random.seed(seed); random.randint(-50, 50), for the seeds of the model
JitterTable ==
    (42 :> 31) @@ (2000 :> 7) @@ (3000 :> 31) @@ (4000 :> 2) @@ (5000 :> -21)
      @@ (6000 :> -28) @@ (8000 :> 23) @@ (10000 :> 23) @@ (12000 :> -46)
      @@ (15000 :> 24) @@ (20000 :> 5) @@ (50000 :> 8)

Jitter(income) == JitterTable[IF income > 0 THEN income ELSE 42]

\* LoanFeatureEngineer._estimate_credit_score
EstimateCreditScore(row) ==
    LET Within(base_score) ==
            IF base_score < 300 THEN 300
            ELSE IF base_score > 850 THEN 850 ELSE base_score
        Estimate(credit_history, income, education, self_employed) ==
            Within((IF credit_history = 1 THEN 700 ELSE 600)
                + (IF income >= 20000 THEN 50
                   ELSE IF income >= 15000 THEN 30
                   ELSE IF income >= 10000 THEN 20
                   ELSE IF income >= 5000 THEN 10 ELSE 0)
                + (IF education = "Graduate" THEN 20 ELSE 0)
                - (IF self_employed = "Yes" THEN 30 ELSE 0)
                + Jitter(income))
    IN  Estimate(Get(row, "Credit_History", 0), Get(row, "ApplicantIncome", 0),
                 Get(row, "Education", "Graduate"), Get(row, "Self_Employed", "No"))

CreateAlignedFeatures(df) ==
    LET WithAmount(d) ==
            IF HasCol(d, "LoanAmount")
            THEN SetCol(d, "amount", [i \in 1..Len(d.rows) |-> d.rows[i]["LoanAmount"]])
            ELSE d
        WithPurpose(d) ==
            IF HasCol(d, "LoanAmount") /\ HasCol(d, "Property_Area")
            THEN SetCol(d, "purpose",
                   [i \in 1..Len(d.rows) |-> DeterminePurpose(d.rows[i])])
            ELSE d
        WithIncome(d) ==
            IF HasCol(d, "ApplicantIncome") /\ HasCol(d, "CoapplicantIncome")
            THEN SetCol(d, "income",
                   [i \in 1..Len(d.rows) |-> d.rows[i]["ApplicantIncome"]
                                               + d.rows[i]["CoapplicantIncome"]])
            ELSE IF HasCol(d, "ApplicantIncome")
            THEN SetCol(d, "income",
                   [i \in 1..Len(d.rows) |-> d.rows[i]["ApplicantIncome"]])
            ELSE d
        WithEmploymentYears(d) ==
            IF HasCol(d, "ApplicantIncome")
            THEN SetCol(d, "employment_years",
                   [i \in 1..Len(d.rows) |-> EstimateEmploymentYears(d.rows[i])])
            ELSE d
        WithCreditScore(d) ==
            IF HasCol(d, "Credit_History")
            THEN SetCol(d, "credit_score",
                   [i \in 1..Len(d.rows) |-> EstimateCreditScore(d.rows[i])])
            ELSE d
    IN  WithCreditScore(WithEmploymentYears(WithIncome(WithPurpose(WithAmount(df)))))

\* ------------------------------------------------------------------------
\* DataUtils (shared/base_model.py) and the copies of its two functions in
\* churn_model.py and loan_model.py
\* ------------------------------------------------------------------------

Column(X, j) == Array([r \in 1..Len(X) |-> X[r][j]])

MaxAbs(q) == IF Len(q) = 0 THEN 0
             ELSE CHOOSE a \in { Abs(q[i]) : i \in 1..Len(q) } :
                      \A i \in 1..Len(q) : Abs(q[i]) <= a

\* np.mean(X, axis=0): nan for a column without rows
Mean(col) == IF Len(col) = 0 THEN NaN ELSE RoundDiv(SumSeq(col), Len(col))

\* np.std(X, axis=0), the population standard deviation; large deviations
\* are squared in units of 100/SCALE to stay within the integers
Std(col) ==
    IF Len(col) = 0 THEN NaN
    ELSE LET Root(dev, unit) ==
                 ISqrt(RoundDiv(SumSeq(Array([r \in 1..Len(col) |->
                           RoundDiv(dev[r], unit) * RoundDiv(dev[r], unit)])),
                       Len(col))) * unit
             Deviation(dev) == Root(dev, IF MaxAbs(dev) > 20000 THEN 100 ELSE 1)
             Centered(mu) == Deviation(Array([r \in 1..Len(col) |-> col[r] - mu]))
         IN  Centered(Mean(col))

\* np.where(feature_stds == 0, 1, feature_stds)
GuardStd(sd) == IF sd = 0 THEN SCALE ELSE sd

FitMeans(X, n) == Array([j \in 1..n |-> Mean(Column(X, j))])
FitStds(X, n) == Array([j \in 1..n |-> GuardStd(Std(Column(X, j)))])

\* (X - feature_means) / feature_stds
Standardize(X, feature_means, feature_stds) ==
    Array([r \in 1..Len(X) |->
        Array([j \in 1..Len(feature_means) |->
            IF IsNaN(X[r][j]) \/ IsNaN(feature_means[j]) \/ IsNaN(feature_stds[j])
            THEN NaN
            ELSE RoundDiv((X[r][j] - feature_means[j]) * SCALE, feature_stds[j])])])

\* DataUtils.normalize_features(X, feature_means, feature_stds), the
\* parameters being Optional: computed from X when either is None
NormalizeFeatures(X, n, feature_means, feature_stds) ==
    LET Normalized(mu, sd) ==
            [X_normalized |-> Standardize(X, mu, sd),
             feature_means |-> mu, feature_stds |-> sd]
    IN  IF IsNone(feature_means) \/ IsNone(feature_stds)
        THEN Normalized(FitMeans(X, n), FitStds(X, n))
        ELSE Normalized(feature_means[1], feature_stds[1])

\* the largest power of two that is at most k, for k >= 1
LargestPowerOfTwo(k) ==
    CHOOSE p \in { 2 ^ e : e \in 0..29 } : p <= k /\ k < 2 * p

\* int(train_ratio * m): train_ratio is the double nearest to 0.7, which is
\* 0.4 * 2^-53 below it.  Where 0.7 * m is a whole number k the product
\* falls short of k by (4k/7) * 2^-53 and rounds to the double below k as
\* soon as that exceeds half the spacing 2^(p-52) of the doubles below k,
\* 2^p being the largest power of two at most k; int() then gives k - 1
\* (62 for m = 90).  Elsewhere it is the floor of 0.7 * m.
TrainEnd(m) ==
    IF (7 * m) % 10 = 0 /\ m > 0
       /\ 4 * ((7 * m) \div 10) > 7 * LargestPowerOfTwo((7 * m) \div 10)
    THEN ((7 * m) \div 10) - 1
    ELSE (7 * m) \div 10

\* int((train_ratio + val_ratio) * m): 0.7 + 0.15 is the double nearest to
\* 0.85, 0.2 * 2^-53 below it, and the product always rounds back to a
\* whole 0.85 * m
ValEnd(m) == (85 * m) \div 100

Take(q, idx) == Array([k \in 1..Len(idx) |-> q[idx[k]]])

\* a split that shuffles the rows of X and leaves y in its order
SplitWithUnshuffledLabels(X, y, indices) ==
    [X_train |-> Take(X, SubSeq(indices, 1, TrainEnd(Len(X)))),
     X_val |-> Take(X, SubSeq(indices, TrainEnd(Len(X)) + 1, ValEnd(Len(X)))),
     X_test |-> Take(X, SubSeq(indices, ValEnd(Len(X)) + 1, Len(X))),
     y_train |-> SubSeq(y, 1, TrainEnd(Len(X))),
     y_val |-> SubSeq(y, TrainEnd(Len(X)) + 1, ValEnd(Len(X))),
     y_test |-> SubSeq(y, ValEnd(Len(X)) + 1, Len(X))]

\* DataUtils.split_data(X, y), indices being the np.random.permutation(m)
\* draw
SplitData(X, y, indices) ==
    LET m == Len(X)
        train_idx == SubSeq(indices, 1, TrainEnd(m))
        val_idx == SubSeq(indices, TrainEnd(m) + 1, ValEnd(m))
        test_idx == SubSeq(indices, ValEnd(m) + 1, m)
    IN  [X_train |-> Take(X, train_idx), X_val |-> Take(X, val_idx),
         X_test |-> Take(X, test_idx), y_train |-> Take(y, train_idx),
         y_val |-> Take(y, val_idx), y_test |-> Take(y, test_idx)]

\* the outcomes of np.random.permutation(m)
RandomPermutations(m) == Permutations(1..m)

\* ------------------------------------------------------------------------
\* The predictor classes.  kind names the class of an object:
\*   churn_clean    churn/churn_model_clean.py  ChurnPredictor
\*   churn_legacy   churn_model.py              ChurnPredictor
\*   loan_clean     loan/loan_model_clean.py    LoanPredictor
\*   loan_legacy    loan_model.py               LoanPredictor
\*   loan_improved  improved_loan_model.py      LoanPredictor
\* ------------------------------------------------------------------------

Kinds == {"churn_clean", "churn_legacy", "loan_clean", "loan_legacy", "loan_improved"}
ChurnKinds == {"churn_clean", "churn_legacy"}
LoanKinds == {"loan_clean", "loan_legacy", "loan_improved"}

\* max_iterations as the model runs it: the constructor's value, capped
Capped(max_iterations) == IF max_iterations > MaxIter THEN MaxIter ELSE max_iterations

\* the default tolerance 1e-6, below one unit of cost: two costs are within
\* it when they are the same fixed-point number
DefaultTolerance == 1

\* __init__ of each class
NewPredictor(k) ==
    [is_trained |-> FALSE,
     feature_names |-> None,
     feature_means |-> None,
     feature_stds |-> None,
     model |-> CASE k = "churn_clean" ->
                      Some(NewLogisticRegression(SCALE \div 10, Capped(2000), DefaultTolerance))
                 [] k = "churn_legacy" ->
                      Some(NewLogisticRegression(SCALE \div 10, Capped(2000), DefaultTolerance))
                 [] k = "loan_clean" ->
                      Some(NewLogisticRegression(SCALE \div 100, Capped(1000), DefaultTolerance))
                 [] k = "loan_legacy" ->
                      Some(NewLogisticRegression(SCALE \div 10, Capped(2000), DefaultTolerance))
                 [] OTHER -> None,
     label_encoders |-> <<>>,
     pipeline |-> None]

\* the columns of a frame that select_dtypes(include=['object']) lists
StringColumns(df) == { c \in SeqToSet(df.cols) : c \in ObjectColumns }

\* the listed columns that the frame has, in the listed order
Existing(df, cs) == SelectSeq(cs, LAMBDA c : HasCol(df, c))

TargetNotFound(target) ==
    "ValueError: Target column '" \o target \o "' not found in dataset"

\* the result of a preprocessing step: the exception it raised, the
\* feature_names it stored (None when it stored none), X and y
Preprocessed(names, X, y) ==
    [raised |-> "", feature_names |-> Some(names), X |-> X, y |-> Some(y)]
PreprocessFailed(exc) ==
    [raised |-> exc, feature_names |-> None, X |-> <<>>, y |-> None]

\* ChurnPredictor.load_and_preprocess_data of both churn classes, from the
\* cleaned frame on
ChurnPreprocess(k, df_clean) ==
    LET columns_to_drop == IF k = "churn_clean"
                           THEN {"RowNumber", "CustomerId", "Surname", "CustomerName"}
                           ELSE {"RowNumber", "CustomerId", "Surname"}
        Separated(df_encoded, X) ==
            Preprocessed(X.cols, X,
                [i \in 1..Len(df_encoded.rows) |-> df_encoded.rows[i]["Exited"]])
        Encoded(df_encoded) == Separated(df_encoded, DropCols(df_encoded, {"Exited"}))
        Validated(df_processed) ==
            IF ~HasCol(df_processed, "Exited")
            THEN PreprocessFailed(TargetNotFound("Exited"))
            ELSE Encoded(GetDummies(df_processed,
                            Existing(df_processed, <<"Geography", "Gender">>)))
        Numeric(dropped) ==
            Validated(IF k = "churn_clean"
                      THEN DropCols(dropped, StringColumns(dropped) \ {"Geography", "Gender"})
                      ELSE dropped)
    IN  Numeric(DropCols(CreateChurnFeatures(df_clean), columns_to_drop))

\* y == 'Y' as an int
IsY(v) == IF v = "Y" THEN 1 ELSE 0

\* loan/loan_model_clean.py LoanPredictor.load_and_preprocess_data, from the
\* cleaned frame on
LoanPreprocessClean(df_clean) ==
    LET Separated(df_encoded, X) ==
            Preprocessed(X.cols, X,
                [i \in 1..Len(df_encoded.rows) |->
                    IsY(df_encoded.rows[i]["Loan_Status"])])
        Numeric(with_strings) == DropCols(with_strings, StringColumns(with_strings))
        Encoded(df_encoded) ==
            Separated(df_encoded, Numeric(DropCols(df_encoded, {"Loan_Status"})))
        Validated(df_processed) ==
            IF ~HasCol(df_processed, "Loan_Status")
            THEN PreprocessFailed(TargetNotFound("Loan_Status"))
            ELSE Encoded(GetDummies(df_processed,
                            Existing(df_processed, <<"Gender", "Married", "Education",
                                                      "Self_Employed", "Property_Area">>)))
    IN  Validated(DropCols(CreateAlignedFeatures(df_clean), {"purpose"}))

\* for feature in feature_names: if feature not in df.columns: df[feature] = 0
\* followed by df = df[feature_names]
Reindex(df, feature_names) ==
    [cols |-> feature_names,
     rows |-> Array([i \in 1..Len(df.rows) |->
                 Dict([c \in SeqToSet(feature_names) |->
                     IF HasCol(df, c) THEN df.rows[i][c] ELSE 0])])]

\* loan_model.py LoanPredictor._preprocess_single_dataset: no error for a
\* frame without Loan_Status, y is None then
LoanPreprocessLegacy(df, is_train, feature_names) ==
    LET Aligned(y, encoded) ==
            [raised |-> "",
             feature_names |-> IF is_train THEN Some(encoded.cols) ELSE feature_names,
             X |-> IF is_train THEN encoded ELSE Reindex(encoded, feature_names[1]),
             y |-> y]
        Encoded(y, no_target) ==
            Aligned(y, GetDummies(no_target,
                          Existing(no_target, <<"Gender", "Married", "Education",
                                                 "Self_Employed", "Property_Area">>)))
        Separated(no_id) ==
            Encoded(IF HasCol(no_id, "Loan_Status")
                    THEN Some([i \in 1..Len(no_id.rows) |->
                                  IsY(no_id.rows[i]["Loan_Status"])])
                    ELSE None,
                    DropCols(no_id, {"Loan_Status"}))
    IN  Separated(DropCols(df, {"Loan_ID"}))

\* improved_loan_model.py LoanPredictor.load_and_preprocess_data, for a frame
\* without missing values
LoanPreprocessImproved(df) ==
    LET Separated(aligned) ==
            [X |-> DropCols(aligned, {"Loan_Status", "Loan_ID"}),
             y |-> IF HasCol(aligned, "Loan_Status")
                   THEN Some([i \in 1..Len(aligned.rows) |->
                                 IsY(aligned.rows[i]["Loan_Status"])])
                   ELSE None]
    IN  Separated(CreateAlignedFeatures(df))

\* classes_ after the loop over unique_values: each value not yet a class
\* is appended, in order of first appearance
RECURSIVE AppendUnseen(_, _)
AppendUnseen(classes, values) ==
    IF Len(values) = 0 THEN classes
    ELSE AppendUnseen(IF Head(values) \in SeqToSet(classes) THEN classes
                      ELSE Append(classes, Head(values)),
                      Tail(values))

\* LabelEncoder.transform: the position of the value in classes_
EncoderCode(classes, v) == (CHOOSE k \in 1..Len(classes) : classes[k] = v) - 1

\* the encoder of one feature after prepare_features has seen the column:
\* fitted on it when there was none, extended by the unseen values when
\* there was one
EncoderAfter(label_encoders, feature, values) ==
    IF feature \in DOMAIN label_encoders
    THEN AppendUnseen(label_encoders[feature], values)
    ELSE SortStrings(SeqToSet(values))

\* improved_loan_model.py LoanPredictor.prepare_features: the processed
\* frame and self.label_encoders after the call
PrepareFeatures(label_encoders, X) ==
    LET Transformed(available_features, categorical, encoders) ==
            [X_processed |->
                [cols |-> available_features,
                 rows |-> Array([i \in 1..Len(X.rows) |->
                             Dict([f \in SeqToSet(available_features) |->
                                 IF f \in categorical
                                 THEN EncoderCode(encoders[f], X.rows[i][f])
                                 ELSE X.rows[i][f]])])],
             label_encoders |-> encoders]
        Fitted(available_features, categorical) ==
            Transformed(available_features, categorical,
                Dict([f \in DOMAIN label_encoders \cup categorical |->
                    IF f \in categorical
                    THEN EncoderAfter(label_encoders, f,
                                      [i \in 1..Len(X.rows) |-> X.rows[i][f]])
                    ELSE label_encoders[f]]))
        Selected(available_features) ==
            Fitted(available_features,
                   SeqToSet(available_features)
                     \cap {"purpose", "Gender", "Married", "Education",
                           "Self_Employed", "Property_Area"})
    IN  Selected(Existing(X, <<"amount", "purpose", "income", "employment_years",
                               "credit_score", "Gender", "Married", "Dependents",
                               "Education", "Self_Employed", "ApplicantIncome",
                               "CoapplicantIncome", "LoanAmount", "Loan_Amount_Term",
                               "Credit_History", "Property_Area">>))

\* ------------------------------------------------------------------------
\* train
\* ------------------------------------------------------------------------

\* what train does from the preprocessed data on, in the classes built on
\* the hand-rolled classifier: normalize, fit, and mark the object trained.
\* A frame that still holds a string column fails in np.asarray(X, float64).
FitPipeline(self, names, X_train, y_train, w0) ==
    LET Marked(after, fitted) ==
            IF fitted.raised # "" THEN Raised(after, fitted.raised)
            ELSE Returned([after EXCEPT !.is_trained = TRUE])
        Fitted(normalized, fitted) ==
            Marked([normalized EXCEPT !.model = Some(fitted.obj)], fitted)
        Normalized(named, norm) ==
            Fitted([named EXCEPT !.feature_means = Some(norm.feature_means),
                                 !.feature_stds = Some(norm.feature_stds)],
                   IF IsNone(y_train)
                   THEN Raised([self.model[1] EXCEPT !.weights = Some(w0),
                                                     !.bias = Some(0)],
                               "TypeError: len() of unsized object")
                   ELSE Fit(self.model[1], norm.X_normalized, y_train[1], w0))
        Named(named) ==
            IF SeqToSet(names) \cap ObjectColumns # {}
            THEN Raised(named, "ValueError: could not convert string to float")
            ELSE Normalized(named, NormalizeFeatures(X_train, Len(names), None, None))
    IN  Named([self EXCEPT !.feature_names = Some(names)])

\* the np.random.normal(0, 0.01, n) draw whose entries all are c
ConstantVector(n, c) == Array([j \in 1..n |-> c])

\* train of the churn classes and of the clean loan class: preprocess,
\* split_data, normalize on the training part, fit
TrainSplit(self, pre, indices, c) ==
    IF pre.raised # "" THEN Raised(self, pre.raised)
    ELSE LET Fitted(names, parts) ==
                 FitPipeline(self, names, parts.X_train, Some(parts.y_train),
                             ConstantVector(Len(names), c))
         IN  Fitted(pre.feature_names[1],
                    SplitData(Values(pre.X, pre.feature_names[1]), pre.y[1], indices))

\* loan_model.py LoanPredictor.train without a test file: every row trains
TrainLegacyLoan(self, df, c) ==
    LET Fitted(pre, names) ==
            FitPipeline(self, names, Values(pre.X, names), pre.y,
                        ConstantVector(Len(names), c))
        Preprocess(pre) == Fitted(pre, pre.feature_names[1])
    IN  Preprocess(LoanPreprocessLegacy(df, TRUE, self.feature_names))

\* improved_loan_model.py LoanPredictor.train: the encoders and the feature
\* names are stored before scikit-learn splits, selects and fits; sklearn_ok
\* tells whether those calls return or raise
TrainImproved(self, df, sklearn_ok) ==
    LET Selected(pre, named, feature_names) ==
            IF IsNone(pre.y) \/ ~sklearn_ok THEN Raised(named, "ValueError: scikit-learn")
            ELSE Returned([named EXCEPT !.pipeline = Some(feature_names),
                                        !.is_trained = TRUE])
        Prepared(pre, prepared) ==
            Selected(pre,
                     [self EXCEPT !.label_encoders = prepared.label_encoders,
                                  !.feature_names = Some(prepared.X_processed.cols)],
                     prepared.X_processed.cols)
        Preprocess(pre) == Prepared(pre, PrepareFeatures(self.label_encoders, pre.X))
    IN  Preprocess(LoanPreprocessImproved(df))

\* train(filepath) of an object of class k, df being the cleaned frame of
\* the file, indices and c the random draws, sklearn_ok scikit-learn's part
Train(k, self, df, indices, c, sklearn_ok) ==
    CASE k \in ChurnKinds -> TrainSplit(self, ChurnPreprocess(k, df), indices, c)
      [] k = "loan_clean" -> TrainSplit(self, LoanPreprocessClean(df), indices, c)
      [] k = "loan_legacy" -> TrainLegacyLoan(self, df, c)
      [] OTHER -> TrainImproved(self, df, sklearn_ok)

\* ------------------------------------------------------------------------
\* predict.  A record (the dict passed to predict) is a frame of one row.
\* ------------------------------------------------------------------------

NotTrained == "ValueError: Model not trained yet. Call train() first."

\* the outcome of a call that returns a value
ReturnedValue(obj, value) == [raised |-> "", obj |-> obj, result |-> Some(value)]
\* an early return that raises nothing
RaisedSilently(obj, exc) == [raised |-> "", obj |-> obj, result |-> None]
RaisedNoValue(obj, exc) == [raised |-> exc, obj |-> obj, result |-> None]

\* churn/churn_model_clean.py: the tier of a probability
RiskLevelClean(probability) ==
    IF Ge(probability, (35 * SCALE) \div 100) THEN "High"
    ELSE IF Ge(probability, (15 * SCALE) \div 100) THEN "Medium"
    ELSE "Low"

\* churn_model.py: the tier of a probability
RiskLevelLegacy(probability) ==
    IF Gt(probability, (7 * SCALE) \div 10) THEN "High"
    ELSE IF Gt(probability, (3 * SCALE) \div 10) THEN "Medium"
    ELSE "Low"

ChurnRiskLevel(k, probability) ==
    IF k = "churn_clean" THEN RiskLevelClean(probability)
    ELSE RiskLevelLegacy(probability)

\* the branch of the recommendations a probability selects
ChurnRecommendations(k, probability) ==
    IF k = "churn_clean"
    THEN (IF Gt(probability, (35 * SCALE) \div 100) THEN "high-risk"
          ELSE IF Gt(probability, (15 * SCALE) \div 100) THEN "medium-risk"
          ELSE "low-risk")
    ELSE (IF Gt(probability, SCALE \div 2) THEN "retention" ELSE "none")

\* int(probability >= 0.5)
PredictionStrict(probability) == IF Gt(probability, SCALE \div 2) THEN 1 ELSE 0
Prediction(probability) == IF Ge(probability, SCALE \div 2) THEN 1 ELSE 0

\* the classifier's probability for the one row of the frame, reindexed to
\* the training features and normalized with the stored parameters; a
\* parameter vector of another length than the row fails to broadcast
Score(self, df_encoded) ==
    LET names == self.feature_names[1]
        X == Values(Reindex(df_encoded, names), names)
        norm == NormalizeFeatures(X, Len(names), self.feature_means, self.feature_stds)
    IN  PredictProba(self.model[1], norm.X_normalized)[1]

ShapesAgree(self) ==
    /\ Len(self.feature_means[1]) = Len(self.feature_names[1])
    /\ Len(self.model[1].weights[1]) = Len(self.feature_names[1])

\* ChurnPredictor.predict of both churn classes
PredictChurn(k, self, customer_data) ==
    IF ~self.is_trained THEN RaisedNoValue(self, NotTrained)
    ELSE IF ~(HasCol(customer_data, "Geography") /\ HasCol(customer_data, "Gender"))
    THEN RaisedNoValue(self, "KeyError: not in index")
    ELSE IF ~ShapesAgree(self)
    THEN RaisedNoValue(self, "ValueError: operands could not be broadcast together")
    ELSE LET Result(vector, probability) ==
                 ReturnedValue(self,
                    [features |-> self.feature_names[1],
                     vector |-> vector,
                     probability |-> probability,
                     prediction |-> Prediction(probability),
                     label |-> ChurnRiskLevel(k, probability),
                     confidence_level |-> "",
                     recommendations |-> ChurnRecommendations(k, probability)])
             Scored(df_encoded) ==
                 Result(Values(Reindex(df_encoded, self.feature_names[1]),
                               self.feature_names[1])[1],
                        Score(self, df_encoded))
         IN  Scored(GetDummies(customer_data, <<"Geography", "Gender">>))

\* min(360, max(120, employment_years * 12)), employment_years in fixed point
LoanTerm(employment_years) ==
    LET months == RoundDiv(employment_years * 12, SCALE)
        floor == IF months < 120 THEN 120 ELSE months
    IN  IF floor > 360 THEN 360 ELSE floor

\* loan/loan_model_clean.py LoanPredictor._convert_frontend_to_model_format;
\* amount / 1000 is exact for the amounts of the model
ConvertFrontendToModelFormat(frontend_data) ==
    LET row == frontend_data.rows[1]
        has(c) == HasCol(frontend_data, c)
        cell(c) == CASE c = "LoanAmount" -> row["amount"] \div 1000
                     [] c = "ApplicantIncome" -> row["income"]
                     [] c = "CoapplicantIncome" -> 0
                     [] c = "Loan_Amount_Term" -> LoanTerm(row["employment_years"])
                     [] c = "Credit_History" -> IF row["credit_score"] >= 650 THEN 1 ELSE 0
                     [] c = "Gender" -> "Male"
                     [] c = "Married" -> "Yes"
                     [] c = "Dependents" -> 0
                     [] c = "Education" -> "Graduate"
                     [] c = "Self_Employed" -> "No"
                     [] OTHER -> "Urban"
        model_data(cols) ==
            [cols |-> cols, rows |-> <<Dict([c \in SeqToSet(cols) |-> cell(c)])>>]
    IN  model_data(
               (IF has("amount") THEN <<"LoanAmount">> ELSE <<>>)
            \o (IF has("income") THEN <<"ApplicantIncome", "CoapplicantIncome">> ELSE <<>>)
            \o (IF has("employment_years") THEN <<"Loan_Amount_Term">> ELSE <<>>)
            \o (IF has("credit_score") THEN <<"Credit_History">> ELSE <<>>)
            \o <<"Gender", "Married", "Dependents", "Education", "Self_Employed",
                 "Property_Area">>)

\* loan/loan_model_clean.py LoanPredictor._get_confidence_level
GetConfidenceLevel(confidence) ==
    IF Gt(confidence, (8 * SCALE) \div 10) THEN "High"
    ELSE IF Gt(confidence, (6 * SCALE) \div 10) THEN "Medium"
    ELSE "Low"

\* 1 - probability
Complement(probability) == IF IsNaN(probability) THEN NaN ELSE SCALE - probability

\* abs(probability - 0.5)
Distance(probability) ==
    IF IsNaN(probability) THEN NaN ELSE Abs(probability - SCALE \div 2)

\* the confidence_level of loan_model.py and improved_loan_model.py
ConfidenceByDistance(probability) ==
    IF Gt(Distance(probability), (3 * SCALE) \div 10) THEN "High"
    ELSE IF Gt(Distance(probability), (15 * SCALE) \div 100) THEN "Medium"
    ELSE "Low"

ApprovalStatus(prediction) == IF prediction = 1 THEN "Approved" ELSE "Rejected"

LoanResult(self, vector, probability, confidence_level) ==
    ReturnedValue(self,
        [features |-> self.feature_names[1],
         vector |-> vector,
         probability |-> probability,
         prediction |-> Prediction(probability),
         label |-> ApprovalStatus(Prediction(probability)),
         confidence_level |-> confidence_level,
         recommendations |-> ""])

\* loan/loan_model_clean.py LoanPredictor._assess_risk_level
AssessRiskLevel(probability) ==
    IF Gt(probability, (8 * SCALE) \div 10) THEN "Low Risk"
    ELSE IF Gt(probability, (6 * SCALE) \div 10) THEN "Medium Risk"
    ELSE IF Gt(probability, (4 * SCALE) \div 10) THEN "High Risk"
    ELSE "Very High Risk"

\* recommendations that tell the applicant which credit score they hold
RecommendationsQuotingScore(data, probability, prediction) ==
    IF HasCol(data, "credit_score")
    THEN <<"Your credit score", data.rows[1]["credit_score"]>>
    ELSE <<>>

\* loan/loan_model_clean.py LoanPredictor._generate_loan_recommendations,
\* data being the application as the caller sent it; data['amount'] /
\* (data['income'] * 12) > 0.3 is 10 * amount > 36 * income
GenerateLoanRecommendations(data, probability, prediction) ==
    IF prediction = 0
    THEN <<"Consider improving your credit score before reapplying",
           "Reduce existing debt to improve debt-to-income ratio",
           "Consider applying for a smaller loan amount",
           "Provide additional income documentation or include a co-applicant">>
         \o (IF HasCol(data, "credit_score") /\ data.rows[1]["credit_score"] < 650
             THEN <<"Focus on improving credit score above 650">> ELSE <<>>)
         \o (IF HasCol(data, "income") /\ HasCol(data, "amount")
                /\ (data.rows[1]["income"] <= 0
                      \/ 10 * data.rows[1]["amount"] > 36 * data.rows[1]["income"])
             THEN <<"Consider reducing loan amount to improve debt-to-income ratio">>
             ELSE <<>>)
    ELSE <<"Congratulations! Your loan application meets our criteria",
           "Review the terms and conditions carefully",
           "Consider setting up automatic payments to maintain good standing">>
         \o (IF ~IsNaN(probability) /\ probability < (7 * SCALE) \div 10
             THEN <<"Consider providing additional documentation to strengthen your application">>
             ELSE <<>>)

\* loan/loan_model_clean.py LoanPredictor.predict
PredictLoanClean(self, loan_data) ==
    IF ~self.is_trained THEN RaisedNoValue(self, NotTrained)
    ELSE IF ~ShapesAgree(self)
    THEN RaisedNoValue(self, "ValueError: operands could not be broadcast together")
    ELSE LET Confidence(probability) ==
                 IF Prediction(probability) = 1 THEN probability
                 ELSE Complement(probability)
             Result(vector, probability) ==
                 ReturnedValue(self,
                     [features |-> self.feature_names[1],
                      vector |-> vector,
                      probability |-> probability,
                      prediction |-> Prediction(probability),
                      label |-> ApprovalStatus(Prediction(probability)),
                      confidence_level |-> GetConfidenceLevel(Confidence(probability)),
                      risk_level |-> AssessRiskLevel(probability),
                      recommendations |->
                          GenerateLoanRecommendations(loan_data, probability,
                                                      Prediction(probability))])
             Scored(df_encoded) ==
                 Result(Values(Reindex(df_encoded, self.feature_names[1]),
                               self.feature_names[1])[1],
                        Score(self, df_encoded))
             Encoded(df_processed) ==
                 Scored(GetDummies(df_processed,
                           Existing(df_processed, <<"Gender", "Married", "Education",
                                                     "Self_Employed", "Property_Area">>)))
         IN  Encoded(DropCols(CreateAlignedFeatures(
                                  ConvertFrontendToModelFormat(loan_data)),
                              {"purpose"}))

\* loan_model.py LoanPredictor.predict
PredictLoanLegacy(self, applicant_data) ==
    IF ~self.is_trained THEN RaisedNoValue(self, NotTrained)
    ELSE IF ~ShapesAgree(self)
    THEN RaisedNoValue(self, "ValueError: operands could not be broadcast together")
    ELSE LET Result(X, probability) ==
                 LoanResult(self, Values(X, self.feature_names[1])[1],
                            probability, ConfidenceByDistance(probability))
             Scored(pre) == Result(pre.X, Score(self, pre.X))
         IN  Scored(LoanPreprocessLegacy(applicant_data, FALSE, self.feature_names))

\* the defaults improved_loan_model.py gives the five form fields
FormDefault(c) ==
    CASE c = "amount" -> 100
      [] c = "purpose" -> "Personal/Other"
      [] c = "income" -> 50000
      [] c = "employment_years" -> 2 * SCALE
      [] OTHER -> 650

\* df[feature] = ... for a training feature the record lacks
SyntheticValue(feature, row) ==
    CASE feature = "ApplicantIncome" -> RoundDiv(row["income"] * 7, 10)
      [] feature = "CoapplicantIncome" -> RoundDiv(row["income"] * 3, 10)
      [] feature = "LoanAmount" -> row["amount"]
      [] feature = "Credit_History" -> IF row["credit_score"] >= 650 THEN 1 ELSE 0
      [] feature = "Loan_Amount_Term" -> 360
      [] feature = "Gender" -> "Male"
      [] feature = "Married" -> "Yes"
      [] feature = "Education" -> "Graduate"
      [] feature = "Self_Employed" -> "No"
      [] feature = "Property_Area" -> "Urban"
      [] feature = "Dependents" -> 1
      [] OTHER -> 0

\* the frame of the record with the absent form fields defaulted and the
\* absent training features synthesized
WithDefaults(application_data, feature_names) ==
    LET required == <<"amount", "purpose", "income", "employment_years", "credit_score">>
        Synthesized(formed, absent) ==
            [cols |-> formed.cols \o absent,
             rows |-> <<Dict([c \in SeqToSet(formed.cols) \cup SeqToSet(absent) |->
                           IF HasCol(formed, c) THEN formed.rows[1][c]
                           ELSE SyntheticValue(c, formed.rows[1])])>>]
        Formed(formed) ==
            Synthesized(formed, SelectSeq(feature_names, LAMBDA c : ~HasCol(formed, c)))
        Defaulted(missing) ==
            Formed([cols |-> application_data.cols \o missing,
                    rows |-> <<Dict([c \in SeqToSet(application_data.cols)
                                             \cup SeqToSet(missing) |->
                                  IF HasCol(application_data, c)
                                  THEN application_data.rows[1][c]
                                  ELSE FormDefault(c)])>>])
    IN  Defaulted(SelectSeq(required, LAMBDA c : ~HasCol(application_data, c)))

\* improved_loan_model.py LoanPredictor.predict: prepare_features runs on the
\* record and stores what it does to the encoders; probability is what the
\* fitted scikit-learn pipeline answers
PredictLoanImproved(self, application_data, probability) ==
    IF ~self.is_trained THEN RaisedNoValue(self, NotTrained)
    ELSE LET Result(prepared) ==
                 LoanResult([self EXCEPT !.label_encoders = prepared.label_encoders],
                            Values(Reindex(prepared.X_processed, self.feature_names[1]),
                                   self.feature_names[1])[1],
                            probability, ConfidenceByDistance(probability))
         IN  Result(PrepareFeatures(self.label_encoders,
                                    WithDefaults(application_data, self.feature_names[1])))

\* predict(record) of an object of class k
PredictRecord(k, self, record, probability) ==
    CASE k \in ChurnKinds -> PredictChurn(k, self, record)
      [] k = "loan_clean" -> PredictLoanClean(self, record)
      [] k = "loan_legacy" -> PredictLoanLegacy(self, record)
      [] OTHER -> PredictLoanImproved(self, record, probability)

\* ------------------------------------------------------------------------
\* save_model, load_model, get_feature_importance
\* ------------------------------------------------------------------------

\* a model_data dict that leaves feature_stds out
ModelDataNoStds(k, self) ==
    [model |-> self.model,
     feature_means |-> self.feature_means,
     feature_stds |-> None,
     feature_names |-> self.feature_names,
     label_encoders |-> IF k \in {"loan_clean", "loan_improved"}
                        THEN Some(self.label_encoders) ELSE None,
     pipeline |-> self.pipeline,
     is_trained |-> self.is_trained]

\* the model_data dict of save_model.  The churn classes and loan_model.py
\* write no label_encoders, improved_loan_model.py writes its pipeline in
\* place of the classifier and the normalization parameters.
ModelData(k, self) ==
    [model |-> self.model,
     feature_means |-> self.feature_means,
     feature_stds |-> self.feature_stds,
     feature_names |-> self.feature_names,
     label_encoders |-> IF k \in {"loan_clean", "loan_improved"}
                        THEN Some(self.label_encoders) ELSE None,
     pipeline |-> self.pipeline,
     is_trained |-> self.is_trained]

\* a load_model that does not restore is_trained
LoadedUntrained(k, self, model_data) ==
    [self EXCEPT
        !.model = model_data.model,
        !.feature_means = model_data.feature_means,
        !.feature_stds = model_data.feature_stds,
        !.feature_names = model_data.feature_names,
        !.pipeline = model_data.pipeline,
        !.is_trained = FALSE]

\* load_model: the stored fields replace the object's; loan_model_clean.py
\* reads label_encoders with a default of {}
Loaded(k, self, model_data) ==
    [self EXCEPT
        !.model = model_data.model,
        !.feature_means = model_data.feature_means,
        !.feature_stds = model_data.feature_stds,
        !.feature_names = model_data.feature_names,
        !.label_encoders = IF k \in {"loan_clean", "loan_improved"}
                           THEN (IF IsSome(model_data.label_encoders)
                                 THEN model_data.label_encoders[1] ELSE <<>>)
                           ELSE @,
        !.pipeline = model_data.pipeline,
        !.is_trained = model_data.is_trained]

\* abs(weights) / sum(abs(weights)) * 100, nan when every weight is 0
ImportancePercentages(weights) ==
    LET Share(abs_weights, total_weight) ==
            [j \in 1..Len(weights) |->
                IF total_weight = 0 THEN NaN
                ELSE RoundDiv(abs_weights[j] * 100 * SCALE, total_weight)]
        Total(abs_weights) == Share(abs_weights, SumSeq(abs_weights))
    IN  Total(Array([j \in 1..Len(weights) |-> Abs(weights[j])]))

\* churn/churn_model_clean.py ChurnPredictor.get_feature_importance
GetFeatureImportance(self) ==
    IF ~self.is_trained THEN RaisedNoValue(self, NotTrained)
    ELSE ReturnedValue(self,
            [features |-> self.feature_names[1],
             vector |-> ImportancePercentages(self.model[1].weights[1]),
             probability |-> NaN, prediction |-> 0, label |-> "",
             confidence_level |-> "", recommendations |-> ""])

\* ------------------------------------------------------------------------
\* upload_churn_analysis (admin/routes.py): the loop over the rows of an
\* uploaded frame that has the required columns and no empty cell
\* ------------------------------------------------------------------------

\* safe_numeric(value, default, min_val, max_val) of a number: clamped to
\* the range; None stands for an absent limit
SafeNumeric(value, min_val, max_val) ==
    LET low == IF IsSome(min_val) /\ value < min_val[1] THEN min_val[1] ELSE value
    IN  IF IsSome(max_val) /\ low > max_val[1] THEN max_val[1] ELSE low

\* safe_categorical(value, default, valid_values) of a capitalised word
SafeCategorical(value, default, valid_values) ==
    IF value \in valid_values THEN value ELSE default

\* the customer_data dict built from one row
CustomerData(row) ==
    [cols |-> <<"CreditScore", "Geography", "Gender", "Age", "Tenure", "Balance",
                "NumOfProducts", "HasCrCard", "IsActiveMember", "EstimatedSalary">>,
     rows |-> <<[CreditScore |-> SafeNumeric(row["CreditScore"], Some(300), Some(850)),
                 Geography |-> SafeCategorical(row["Geography"], "France",
                                               {"France", "Germany", "Spain"}),
                 Gender |-> SafeCategorical(row["Gender"], "Male", {"Male", "Female"}),
                 Age |-> SafeNumeric(row["Age"], Some(18), Some(100)),
                 Tenure |-> SafeNumeric(row["Tenure"], Some(0), Some(50)),
                 Balance |-> SafeNumeric(row["Balance"], Some(0), None),
                 NumOfProducts |-> SafeNumeric(row["NumOfProducts"], Some(1), Some(4)),
                 HasCrCard |-> SafeNumeric(row["HasCrCard"], Some(0), Some(1)),
                 IsActiveMember |-> SafeNumeric(row["IsActiveMember"], Some(0), Some(1)),
                 EstimatedSalary |-> SafeNumeric(row["EstimatedSalary"], Some(0), None)]>>]

\* data_quality_score of the customer_data
DataQualityScore(data) ==
    100 - (IF data["CreditScore"] = 650 THEN 10 ELSE 0)
        - (IF data["Age"] = 35 THEN 10 ELSE 0)
        - (IF data["Balance"] = 0 /\ data["EstimatedSalary"] > 100000 THEN 5 ELSE 0)

\* the tier the route gives a probability
RouteRiskLevel(churn_prob) ==
    IF Ge(churn_prob, (35 * SCALE) \div 100) THEN "High"
    ELSE IF Ge(churn_prob, (15 * SCALE) \div 100) THEN "Medium"
    ELSE "Low"

\* what the loop does with one row: an entry of customer_predictions, or a
\* skip with the message appended to processing_errors
ProcessCustomer(k, churn_predictor, row) ==
    LET Skipped(error, detail) == [entry |-> None, error |-> error, detail |-> detail]
        Entry(prediction) ==
            IF prediction.raised # "" THEN Skipped("Prediction error", prediction.raised)
            ELSE IF IsNaN(prediction.result[1].probability)
            THEN Skipped("Prediction error", "Invalid prediction result")
            ELSE [entry |-> Some([probability |-> prediction.result[1].probability,
                                  label |-> RouteRiskLevel(prediction.result[1].probability),
                                  recommendations |-> prediction.result[1].recommendations]),
                  error |-> "", detail |-> ""]
        Checked(customer_data) ==
            IF DataQualityScore(customer_data.rows[1]) < 70
            THEN Skipped("Low data quality", "")
            ELSE Entry(PredictChurn(k, churn_predictor, customer_data))
    IN  Checked(CustomerData(row))

\* the loop stopped at the first row that fails
RECURSIVE AbortedRows(_, _, _)
AbortedRows(k, churn_predictor, rows) ==
    IF Len(rows) = 0
    THEN [customer_predictions |-> <<>>, skipped_customers |-> 0, processing_errors |-> <<>>]
    ELSE LET Stopped(one) ==
                 IF IsNone(one.entry)
                 THEN [customer_predictions |-> <<>>, skipped_customers |-> 1,
                       processing_errors |->
                           <<[customer |-> 0, error |-> one.error, detail |-> one.detail]>>]
                 ELSE AbortedRows(k, churn_predictor, <<>>)
         IN  Stopped(ProcessCustomer(k, churn_predictor, Head(rows)))

\* the loop over df_clean.iterrows(), whose labels are 0, 1, 2, ...:
\* customer_predictions, skipped_customers and processing_errors
RECURSIVE ProcessRows(_, _, _)
ProcessRows(k, churn_predictor, rows) ==
    IF Len(rows) = 0
    THEN [customer_predictions |-> <<>>, skipped_customers |-> 0, processing_errors |-> <<>>]
    ELSE LET Counted(before, one) ==
                 [customer_predictions |-> before.customer_predictions \o one.entry,
                  skipped_customers |->
                      before.skipped_customers + (IF IsNone(one.entry) THEN 1 ELSE 0),
                  processing_errors |->
                      before.processing_errors \o
                          (IF IsNone(one.entry)
                           THEN <<[customer |-> Len(rows) - 1, error |-> one.error,
                                   detail |-> one.detail]>>
                           ELSE <<>>)]
         IN  Counted(ProcessRows(k, churn_predictor, SubSeq(rows, 1, Len(rows) - 1)),
                     ProcessCustomer(k, churn_predictor, rows[Len(rows)]))

\* q[:n]
FirstOf(q, n) == SubSeq(q, 1, IF Len(q) < n THEN Len(q) ELSE n)

\* what the route answers after the loop: 400 with the first five messages
\* when no row gave a prediction, else the analysis with its
\* data_processing_report
ChurnAnalysisResponse(looped) ==
    IF Len(looped.customer_predictions) = 0
    THEN [customer_predictions |-> looped.customer_predictions,
          skipped_customers |-> looped.skipped_customers,
          processing_errors |-> looped.processing_errors,
          status |-> 400,
          error |-> FirstOf(looped.processing_errors, 5),
          data_processing_report |-> None]
    ELSE [customer_predictions |-> looped.customer_predictions,
          skipped_customers |-> looped.skipped_customers,
          processing_errors |-> looped.processing_errors,
          status |-> 200,
          error |-> <<>>,
          data_processing_report |->
              Some([successfully_processed |-> Len(looped.customer_predictions),
                    skipped_customers |-> looped.skipped_customers,
                    processing_errors |-> FirstOf(looped.processing_errors, 10)])]

\* ------------------------------------------------------------------------
\* The classifier on its own
\* ------------------------------------------------------------------------

\* training sets: logical AND, an all-zero column, a separable column
FitData ==
    { [X |-> <<<<0, 0>>, <<0, SCALE>>, <<SCALE, 0>>, <<SCALE, SCALE>>>>,
       y |-> <<0, 0, 0, 1>>],
      [X |-> <<<<0>>, <<0>>>>, y |-> <<0, 1>>],
      [X |-> <<<<-SCALE>>, <<SCALE>>, <<2 * SCALE>>>>, y |-> <<0, 1, 1>>] }

\* draws of np.random.normal(0, 0.01, n): each weight 0 or 0.01
InitialWeights(n) == { [j \in 1..n |-> c] : c \in {0, 1} }

\* per-sample weights handed to fit_weighted: all equal, or the last row heavier
SampleWeights(m) ==
    { [r \in 1..m |-> SCALE], [r \in 1..m |-> IF r = m THEN 3 * SCALE ELSE SCALE] }

\* rows asked of predict / predict_proba; a row of NaN is what a pipeline
\* whose feature_means are NaN hands over after normalising
QueryRows(n) == { [j \in 1..n |-> c] : c \in {-SCALE, 0, SCALE, NaN} }

\* the seeds handed to np.random.seed before a fit; None stands for a fit
\* that follows no call of np.random.seed
Seeds == {None, Some(42)}

\* np.random.normal(0, 0.01, n) drawn whatever the seed was
AnyDraws(seed, n) == InitialWeights(n)

\* what np.random.normal(0, 0.01, n) can draw in fit: after
\* np.random.seed(seed) the draw is a function of the seed, else it is
\* whatever the generator's state gives
NormalDraws(seed, n) ==
    IF IsNone(seed) THEN InitialWeights(n)
    ELSE { [j \in 1..n |-> 1] }

\* the last call made on the classifier: its arguments, the length of
\* cost_history before it, what it raised and answered; repeat says that
\* the call before it was the same call with the same seed and arguments,
\* previous being the parameters and the costs that earlier call left
NoCall ==
    [op |-> "none", raised |-> "", before |-> 0, X |-> <<>>,
     proba |-> <<>>, labels |-> <<>>,
     seed |-> None, y |-> <<>>, sample_weights |-> <<>>,
     repeat |-> FALSE, previous |-> None]

\* the costs a call appended to cost_history
CostsAppended(self, before) ==
    SubSeq(self.cost_history, before + 1, Len(self.cost_history))

\* the record of a fit or fit_weighted call that ended in r
FitCall(op, seed, d, sw, r) ==
    LET Recorded(repeat) ==
            [NoCall EXCEPT !.op = op, !.raised = r.raised,
                           !.before = Len(clf.cost_history), !.X = d.X,
                           !.seed = seed, !.y = d.y, !.sample_weights = sw,
                           !.repeat = repeat,
                           !.previous =
                               IF repeat
                               THEN Some([weights |-> clf.weights, bias |-> clf.bias,
                                          costs |-> CostsAppended(clf, call.before)])
                               ELSE None]
    IN  Recorded(/\ call.op = op
                 /\ call.raised = ""
                 /\ IsSome(seed)
                 /\ call.seed = seed
                 /\ call.X = d.X
                 /\ call.y = d.y
                 /\ call.sample_weights = sw)

InitFitClassifier ==
    \E lr \in {SCALE \div 10}, mi \in {1, MaxIter}, tol \in {1, 30} :
        clf = NewLogisticRegression(lr, mi, tol)

\* np.random.seed(seed), or no seeding, and then fit(X, y)
ClfFit ==
    \E d \in FitData, seed \in Seeds :
      \E w0 \in NormalDraws(seed, Len(d.X[1])) :
        LET Called(r) ==
                /\ clf' = r.obj
                /\ call' = FitCall("fit", seed, d, <<>>, r)
        IN  /\ Len(clf.cost_history) + clf.max_iterations <= MaxHistory
            /\ Called(Fit(clf, d.X, d.y, w0))
            /\ UNCHANGED <<kind, pred, disk, ret, dq>>

\* np.random.seed(seed), or no seeding, and then
\* fit_weighted(X, y, sample_weights)
ClfFitWeighted ==
    \E d \in FitData, seed \in Seeds :
      \E w0 \in NormalDraws(seed, Len(d.X[1])), sw \in SampleWeights(Len(d.X)) :
        LET Called(r) ==
                /\ clf' = r.obj
                /\ call' = FitCall("fit_weighted", seed, d, sw, r)
        IN  /\ Len(clf.cost_history) + clf.max_iterations <= MaxHistory
            /\ Called(FitWeighted(clf, d.X, d.y, sw, w0))
            /\ UNCHANGED <<kind, pred, disk, ret, dq>>

\* predict and predict_proba on a fitted classifier, one row at a time
ClfPredict ==
    /\ IsSome(clf.weights)
    /\ \E x \in QueryRows(Len(clf.weights[1])) :
          call' = [NoCall EXCEPT !.op = "predict", !.X = <<x>>,
                                !.proba = PredictProba(clf, <<x>>),
                                !.labels = Predict(clf, <<x>>)]
    /\ UNCHANGED <<clf, kind, pred, disk, ret, dq>>

\* ------------------------------------------------------------------------
\* The datasets and the records of the model
\* ------------------------------------------------------------------------

Frame(cols, rows) == [cols |-> cols, rows |-> rows]

ChurnColumns == <<"Surname", "CreditScore", "Geography", "Gender", "Age", "Tenure", "Exited">>

ChurnRow(surname, credit_score, geography, gender, age, tenure, exited) ==
    [Surname |-> surname, CreditScore |-> credit_score, Geography |-> geography,
     Gender |-> gender, Age |-> age, Tenure |-> tenure, Exited |-> exited]

ChurnData ==
    Frame(ChurnColumns,
          << ChurnRow("Hill", 600, "France", "Female", 30, 2, 0),
             ChurnRow("Ono", 700, "Spain", "Male", 45, 8, 1),
             ChurnRow("Kay", 650, "France", "Male", 40, 5, 0) >>)

\* the cleaned training frames of the churn classes: a complete one, one
\* without the target column, one of a single row, one with the
\* CustomerName column of the upload files
ChurnFrames ==
    { ChurnData,
      DropCols(ChurnData, {"Exited"}),
      Frame(ChurnColumns, SubSeq(ChurnData.rows, 2, 2)),
      SetCol(ChurnData, "CustomerName", <<"Ann", "Bob", "Cy">>) }

LoanColumns ==
    <<"Loan_ID", "Gender", "ApplicantIncome", "LoanAmount", "Credit_History",
      "Property_Area", "Loan_Status">>

LoanRow(id, gender, income, amount, history, area, status) ==
    [Loan_ID |-> id, Gender |-> gender, ApplicantIncome |-> income,
     LoanAmount |-> amount, Credit_History |-> history, Property_Area |-> area,
     Loan_Status |-> status]

LoanData ==
    Frame(LoanColumns,
          << LoanRow("LP001", "Male", 3000, 120, 1, "Urban", "Y"),
             LoanRow("LP002", "Female", 6000, 250, 0, "Rural", "N"),
             LoanRow("LP003", "Male", 5000, 80, 1, "Urban", "Y") >>)

\* the training frames of the loan classes: a complete one, one without the
\* target column, one of a single row, one with a column of remarks
LoanFrames ==
    { LoanData,
      DropCols(LoanData, {"Loan_Status"}),
      Frame(LoanColumns, SubSeq(LoanData.rows, 1, 1)),
      SetCol(LoanData, "Notes", <<"Yes", "No", "Yes">>) }

TrainingFrames(k) == IF k \in ChurnKinds THEN ChurnFrames ELSE LoanFrames

\* the records passed to predict: all the fields, a subset, a superset, the
\* fields of a training row
ChurnRecords ==
    { Frame(<<"CreditScore", "Geography", "Gender", "Age", "Tenure">>,
            <<[CreditScore |-> 650, Geography |-> "Germany", Gender |-> "Male",
               Age |-> 40, Tenure |-> 3]>>),
      Frame(<<"CreditScore", "Geography", "Age", "Tenure">>,
            <<[CreditScore |-> 650, Geography |-> "France", Age |-> 40, Tenure |-> 3]>>),
      Frame(<<"Geography", "Gender">>,
            <<[Geography |-> "France", Gender |-> "Female"]>>),
      Frame(<<"CreditScore", "Geography", "Gender", "Age", "Tenure", "Notes">>,
            <<[CreditScore |-> 720, Geography |-> "Spain", Gender |-> "Female",
               Age |-> 52, Tenure |-> 9, Notes |-> "vip"]>>),
      Frame(<<"CreditScore", "Geography", "Gender", "Age", "Tenure">>,
            <<[CreditScore |-> 700, Geography |-> "Spain", Gender |-> "Male",
               Age |-> 45, Tenure |-> 8]>>) }

LoanRecords ==
    { Frame(<<"amount", "income", "employment_years", "credit_score">>,
            <<[amount |-> 150000, income |-> 6000, employment_years |-> 5 * SCALE,
               credit_score |-> 700]>>),
      Frame(<<"amount", "income">>, <<[amount |-> 90000, income |-> 3000]>>),
      Frame(<<"amount", "purpose", "income", "employment_years", "credit_score">>,
            <<[amount |-> 150000, purpose |-> "Vacation", income |-> 6000,
               employment_years |-> 5 * SCALE, credit_score |-> 600]>>),
      Frame(<<"Gender", "ApplicantIncome", "LoanAmount", "Credit_History">>,
            <<[Gender |-> "Female", ApplicantIncome |-> 5000, LoanAmount |-> 200,
               Credit_History |-> 1]>>) }

Records(k) == IF k \in ChurnKinds THEN ChurnRecords ELSE LoanRecords

UploadColumns ==
    <<"CustomerName", "CreditScore", "Geography", "Gender", "Age", "Tenure", "Balance",
      "NumOfProducts", "HasCrCard", "IsActiveMember", "EstimatedSalary">>

\* the uploaded frames
Uploads ==
    { Frame(UploadColumns,
            << [CustomerName |-> "Ann", CreditScore |-> 650, Geography |-> "France",
                Gender |-> "Female", Age |-> 35, Tenure |-> 2, Balance |-> 0,
                NumOfProducts |-> 1, HasCrCard |-> 1, IsActiveMember |-> 0,
                EstimatedSalary |-> 120000],
               [CustomerName |-> "Bob", CreditScore |-> 900, Geography |-> "Rural",
                Gender |-> "Male", Age |-> 61, Tenure |-> 9, Balance |-> 500,
                NumOfProducts |-> 2, HasCrCard |-> 0, IsActiveMember |-> 1,
                EstimatedSalary |-> 800] >>),
      Frame(UploadColumns,
            Array([i \in 1..6 |->
               [CustomerName |-> "Bob", CreditScore |-> 500 + 50 * i,
                Geography |-> IF i % 2 = 0 THEN "Spain" ELSE "Germany",
                Gender |-> "Male", Age |-> 30 + 5 * i, Tenure |-> i, Balance |-> 100 * i,
                NumOfProducts |-> 1, HasCrCard |-> 1, IsActiveMember |-> 1,
                EstimatedSalary |-> 900]])) }

\* the draws of np.random.normal(0, 0.01, n) in the pipelines
WeightDraws == {0, 1}

\* what predict_proba of a fitted scikit-learn pipeline can answer
PipelineProbabilities == {5, 30, 50, 70, 95}

\* ------------------------------------------------------------------------
\* The predictor object and the calls made on it
\* ------------------------------------------------------------------------

NoFrame == Frame(<<>>, <<>>)

\* ret: the call (op), its argument, the exception it raised and the value
\* it returned
Ret(op, arg, raised, result) ==
    [op |-> op, arg |-> arg, raised |-> raised, result |-> result]

\* the training calls the model still allows the object: the classifier's
\* cost_history is kept within MaxHistory
MaxHistoryReached(self) ==
    IsSome(self.model)
      /\ Len(self.model[1].cost_history) + self.model[1].max_iterations > MaxHistory

\* p = PredictorClass()
Construct ==
    /\ pred' = NewPredictor(kind)
    /\ ret' = Ret("__init__", NoFrame, "", None)
    /\ UNCHANGED <<clf, call, kind, disk, dq>>

\* p.train(filepath).  Training is what comes before the model file is
\* written: the model follows no training run once the file exists.
TrainCall ==
    /\ ~MaxHistoryReached(pred)
    /\ IsNone(disk)
    /\ \E df \in TrainingFrames(kind) :
       \E indices \in RandomPermutations(Len(df.rows)) :
       \E c \in WeightDraws :
       \E sklearn_ok \in (IF kind # "loan_improved" THEN {TRUE}
                          ELSE IF Len(df.rows) < 2 THEN {FALSE} ELSE BOOLEAN) :
          LET Called(out) ==
                  /\ pred' = out.obj
                  /\ ret' = Ret("train", df, out.raised, None)
          IN  Called(Train(kind, pred, df, indices, c, sklearn_ok))
    /\ UNCHANGED <<clf, call, kind, disk, dq>>

\* p.predict(record)
PredictCall ==
    /\ \E record \in Records(kind) :
       \E probability \in (IF kind = "loan_improved" /\ pred.is_trained
                           THEN PipelineProbabilities ELSE {NaN}) :
          LET Called(out) ==
                  /\ pred' = out.obj
                  /\ ret' = Ret("predict", record, out.raised, out.result)
          IN  Called(PredictRecord(kind, pred, record, probability))
    /\ UNCHANGED <<clf, call, kind, disk, dq>>

\* p.save_model(filepath): saved_by keeps the object that wrote the file
SaveModelCall ==
    /\ IF ~pred.is_trained
       THEN /\ ret' = Ret("save_model", NoFrame, "ValueError: No trained model to save", None)
            /\ disk' = disk
       ELSE /\ ret' = Ret("save_model", NoFrame, "", None)
            /\ disk' = Some([model_data |-> ModelData(kind, pred), saved_by |-> pred])
    /\ UNCHANGED <<clf, call, kind, pred, dq>>

\* p.load_model(filepath)
LoadModelCall ==
    /\ IF IsNone(disk)
       THEN /\ ret' = Ret("load_model", NoFrame, "FileNotFoundError", None)
            /\ pred' = pred
       ELSE /\ ret' = Ret("load_model", NoFrame, "", None)
            /\ pred' = Loaded(kind, pred, disk[1].model_data)
    /\ UNCHANGED <<clf, call, kind, disk, dq>>

\* p.get_feature_importance(), a method of churn/churn_model_clean.py only
GetFeatureImportanceCall ==
    /\ kind = "churn_clean"
    /\ LET Called(out) ==
               ret' = Ret("get_feature_importance", NoFrame, out.raised, out.result)
       IN  Called(GetFeatureImportance(pred))
    /\ UNCHANGED <<clf, call, kind, pred, disk, dq>>

\* POST /churn-upload with the churn predictor loaded and trained
UploadChurnAnalysis ==
    /\ kind \in ChurnKinds
    /\ pred.is_trained
    /\ \E df \in Uploads :
          ret' = Ret("upload_churn_analysis", df, "",
                     Some(ChurnAnalysisResponse(ProcessRows(kind, pred, df.rows))))
    /\ UNCHANGED <<clf, call, kind, pred, disk, dq>>

\* ------------------------------------------------------------------------
\* ai_models/loan_utils.py: the unified loan prediction entry point.  An
\* application is a frame of one row; the frame without rows stands for an
\* application_data of None.  The results keep every field but the
\* recommendations.
\* ------------------------------------------------------------------------

NoApplication == NoFrame

\* get_loan_predictor(): the predictor of the routes module when it is
\* trained, else a LoanPredictor loaded from the model file, else None
GetLoanPredictor(loan_predictor, file) ==
    IF loan_predictor.is_trained THEN Some(loan_predictor)
    ELSE IF IsSome(file)
    THEN Some(Loaded("loan_legacy", NewPredictor("loan_legacy"), file[1].model_data))
    ELSE None

\* map_simple_form_to_model_format(form_data)
MapSimpleFormToModelFormat(form_data) ==
    Frame(<<"Gender", "Married", "Dependents", "Education", "Self_Employed",
            "ApplicantIncome", "CoapplicantIncome", "LoanAmount", "Loan_Amount_Term",
            "Credit_History", "Property_Area">>,
          <<[Gender |-> "Male", Married |-> "Yes", Dependents |-> 0,
             Education |-> "Graduate",
             Self_Employed |-> IF Get(form_data, "employment_years", 0) >= 2 * SCALE
                               THEN "No" ELSE "Yes",
             ApplicantIncome |-> Get(form_data, "income", 0),
             CoapplicantIncome |-> 0,
             LoanAmount |-> RoundDiv(Get(form_data, "amount", 0), 1000),
             Loan_Amount_Term |-> 360,
             Credit_History |-> IF Get(form_data, "credit_score", 0) >= 650 THEN 1 ELSE 0,
             Property_Area |-> "Urban"]>>)

\* a result dict of the entry point
LoanApproval(approval_probability, approved, confidence_level, prediction_method) ==
    [approval_probability |-> approval_probability,
     approval_prediction |-> IF approved THEN 1 ELSE 0,
     approval_status |-> IF approved THEN "Approved" ELSE "Rejected",
     confidence_level |-> confidence_level,
     prediction_method |-> prediction_method]

\* min(0.95, max(0.05, score / 100))
ClampProbability(score) ==
    IF score > 95 THEN (95 * SCALE) \div 100
    ELSE IF score < 5 THEN (5 * SCALE) \div 100
    ELSE (score * SCALE) \div 100

\* rule_based_prediction(data).  debt_to_income is (amount * 0.05 / 12) /
\* (income / 12), and 1 without income; it is compared as a fraction.
RuleBasedPrediction(data) ==
    LET credit_score == Get(data, "credit_score", 0)
        income == Get(data, "income", 0)
        employment_years == Get(data, "employment_years", 0)
        amount == Get(data, "amount", 0)
        DebtToIncomeAtMost(hundredths) ==
            IF income > 0 THEN amount * 5 <= hundredths * income
            ELSE 100 <= hundredths
        Decided(score) ==
            LoanApproval(ClampProbability(score), score >= 60, "Medium", "rule_based")
    IN  Decided((IF credit_score >= 750 THEN 40
                 ELSE IF credit_score >= 700 THEN 30
                 ELSE IF credit_score >= 650 THEN 20 ELSE 10)
              + (IF income >= 75000 THEN 30
                 ELSE IF income >= 50000 THEN 25
                 ELSE IF income >= 30000 THEN 20 ELSE 10)
              + (IF employment_years >= 5 * SCALE THEN 20
                 ELSE IF employment_years >= 2 * SCALE THEN 15 ELSE 5)
              + (IF DebtToIncomeAtMost(28) THEN 10
                 ELSE IF DebtToIncomeAtMost(36) THEN 5 ELSE 0))

\* the emergency fallback of predict_loan_approval
ErrorFallback == LoanApproval(SCALE \div 2, FALSE, "Low", "error_fallback")

\* the entry point without its inner try: an exception of the mapping or
\* of predict reaches the outer handler
UnguardedLoanApproval(predictor, application_data, use_simple_format) ==
    LET missing == Len(application_data.rows) = 0
        Answered(ai) ==
            IF ai.raised # "" THEN ErrorFallback
            ELSE LoanApproval(ai.result[1].probability, ai.result[1].prediction = 1,
                              ai.result[1].confidence_level, "ai_model")
    IN  IF IsSome(predictor) /\ predictor[1].is_trained
        THEN IF use_simple_format /\ missing THEN ErrorFallback
             ELSE Answered(PredictLoanLegacy(predictor[1],
                      IF missing THEN Frame(<<>>, <<Dict([c \in {} |-> 0])>>)
                      ELSE IF use_simple_format
                      THEN MapSimpleFormToModelFormat(application_data.rows[1])
                      ELSE application_data))
        ELSE IF missing THEN ErrorFallback
        ELSE RuleBasedPrediction(application_data.rows[1])

\* predict_loan_approval(application_data, use_simple_format).  Without an
\* application data.get raises AttributeError, in the mapping and in the
\* rules; predictor.predict then receives pd.DataFrame([None]), a row
\* without any of the features.
PredictLoanApproval(predictor, application_data, use_simple_format) ==
    LET missing == Len(application_data.rows) = 0
        Rules == IF missing THEN ErrorFallback
                 ELSE RuleBasedPrediction(application_data.rows[1])
        Answered(ai) ==
            IF ai.raised # "" THEN Rules
            ELSE LoanApproval(ai.result[1].probability, ai.result[1].prediction = 1,
                              ai.result[1].confidence_level, "ai_model")
    IN  IF IsSome(predictor) /\ predictor[1].is_trained
        THEN IF use_simple_format /\ missing THEN Rules
             ELSE Answered(PredictLoanLegacy(predictor[1],
                      IF missing THEN Frame(<<>>, <<Dict([c \in {} |-> 0])>>)
                      ELSE IF use_simple_format
                      THEN MapSimpleFormToModelFormat(application_data.rows[1])
                      ELSE application_data))
        ELSE Rules

\* the applications handed to the entry point
Applications ==
    LoanRecords \cup
    { NoApplication,
      Frame(<<"amount", "purpose", "income", "employment_years", "credit_score">>,
            <<[amount |-> 300000, purpose |-> "Home Purchase", income |-> 50000,
               employment_years |-> 1 * SCALE, credit_score |-> 660]>>) }

\* predict_loan_approval(application_data, use_simple_format), the routes
\* module holding the loan_model.py predictor; ret.arg keeps both arguments
PredictLoanApprovalCall ==
    /\ kind = "loan_legacy"
    /\ \E application_data \in Applications, use_simple_format \in BOOLEAN :
          ret' = Ret("predict_loan_approval",
                     application_data @@ [use_simple_format |-> use_simple_format], "",
                     Some(PredictLoanApproval(GetLoanPredictor(pred, disk),
                                              application_data, use_simple_format)))
    /\ UNCHANGED <<clf, call, kind, pred, disk, dq>>

\* ------------------------------------------------------------------------
\* ai_models/retrain_improved_churn.py: ImprovedChurnPredictor, a subclass
\* of the ChurnPredictor of churn/churn_model_clean.py
\* ------------------------------------------------------------------------

\* ImprovedChurnPredictor.__init__
NewImprovedChurnPredictor ==
    [NewPredictor("churn_clean") EXCEPT
        !.model = Some(NewLogisticRegression((5 * SCALE) \div 100, Capped(3000),
                                             DefaultTolerance))]

\* compute_class_weight('balanced', classes=np.unique(y), y=y) as a dict:
\* n_samples / (n_classes * count) for each class
ComputeClassWeight(y) ==
    [label \in SeqToSet(y) |->
        RoundDiv(Len(y) * SCALE,
                 Cardinality(SeqToSet(y))
                   * Cardinality({ i \in 1..Len(y) : y[i] = label }))]

\* train_with_class_balancing(filepath), df being the cleaned frame of the
\* file, indices and c the random draws.  The result keeps class_weights
\* and, under fit_weighted, the y and sample_weights handed to the
\* classifier.
TrainWithClassBalancing(self, df, indices, c) ==
    LET Finished(normalized, fitted, result) ==
            IF fitted.raised # ""
            THEN RaisedNoValue([normalized EXCEPT !.model = Some(fitted.obj)],
                               fitted.raised)
            ELSE ReturnedValue([normalized EXCEPT !.model = Some(fitted.obj),
                                                  !.is_trained = TRUE],
                               result)
        Trained(named, n, parts, norm, train_sample_weights, weight_dict) ==
            Finished([named EXCEPT !.feature_means = Some(norm.feature_means),
                                   !.feature_stds = Some(norm.feature_stds)],
                     FitWeighted(named.model[1], norm.X_normalized, parts.y_train,
                                 train_sample_weights, ConstantVector(n, c)),
                     [class_weights |-> weight_dict,
                      fit_weighted |-> [y |-> parts.y_train,
                                        sample_weights |-> train_sample_weights]])
        Split(named, n, sample_weights, weight_dict, parts) ==
            Trained(named, n, parts,
                    NormalizeFeatures(parts.X_train, n, None, None),
                    SubSeq(sample_weights, 1, Len(parts.X_train)), weight_dict)
        Weighted(named, names, X, y, weight_dict) ==
            Split(named, Len(names), Array([i \in 1..Len(y) |-> weight_dict[y[i]]]),
                  weight_dict, SplitData(Values(X, names), y, indices))
        Preprocess(pre) ==
            IF pre.raised # "" THEN RaisedNoValue(self, pre.raised)
            ELSE Weighted([self EXCEPT !.feature_names = pre.feature_names],
                          pre.feature_names[1], pre.X, pre.y[1],
                          ComputeClassWeight(pre.y[1]))
    IN  Preprocess(ChurnPreprocess("churn_clean", df))

\* predictor = ImprovedChurnPredictor()
ConstructImproved ==
    /\ pred' = NewImprovedChurnPredictor
    /\ ret' = Ret("__init__", NoFrame, "", None)
    /\ UNCHANGED <<clf, call, kind, disk, dq>>

\* predictor.train_with_class_balancing(filepath)
TrainWithClassBalancingCall ==
    /\ ~MaxHistoryReached(pred)
    /\ IsNone(disk)
    /\ \E df \in ChurnFrames :
       \E indices \in RandomPermutations(Len(df.rows)) :
       \E c \in WeightDraws :
          LET Called(out) ==
                  /\ pred' = out.obj
                  /\ ret' = Ret("train_with_class_balancing", df, out.raised, out.result)
          IN  Called(TrainWithClassBalancing(pred, df, indices, c))
    /\ UNCHANGED <<clf, call, kind, disk, dq>>

\* ------------------------------------------------------------------------
\* DataUtils.split_data on its own
\* ------------------------------------------------------------------------

\* the numbers of rows split
SplitSizes == {0, 1, 2, 3, 4, 5, 10, 90}

\* X and y of m rows: row i of X holds i, and y[i] alternates
SplitInput(m) ==
    [X |-> Array([i \in 1..m |-> <<i>>]), y |-> Array([i \in 1..m |-> i % 2])]

\* the draws of np.random.permutation(m) followed: all of them for a few
\* rows, the identity, the reverse and a rotation for more
SplitOrders(m) ==
    IF m <= 5 THEN RandomPermutations(m)
    ELSE {[i \in 1..m |-> i], [i \in 1..m |-> m + 1 - i],
          [i \in 1..m |-> ((i + 6) % m) + 1]}

\* X and y are loaded
ReadRows ==
    /\ \E m \in SplitSizes : ret' = Ret("read", SplitInput(m), "", None)
    /\ UNCHANGED <<clf, call, kind, pred, disk, dq>>

\* DataUtils.split_data(X, y)
SplitDataCall ==
    /\ ret.op \in {"read", "split_data"}
    /\ \E indices \in SplitOrders(Len(ret.arg.X)) :
          ret' = Ret("split_data", ret.arg, "",
                     Some(SplitData(ret.arg.X, ret.arg.y, indices)))
    /\ UNCHANGED <<clf, call, kind, pred, disk, dq>>

\* ------------------------------------------------------------------------
\* ChurnFeatureEngineer.create_churn_features on its own
\* ------------------------------------------------------------------------

\* tenures on both sides of the stage thresholds 2 and 10, and between
Tenures == {1, 2, 9, 10}

\* datasets of one to four customers with the columns Age and Tenure
TenureFrames ==
    { Frame(<<"Age", "Tenure">>,
            Array([i \in 1..Len(tenures) |-> [Age |-> 40, Tenure |-> tenures[i]]])) :
        tenures \in UNION { [1..n -> Tenures] : n \in 1..4 } }

\* a dataset is loaded
ReadCustomers ==
    /\ \E df \in TenureFrames : ret' = Ret("read", df, "", None)
    /\ UNCHANGED <<clf, call, kind, pred, disk, dq>>

\* ChurnFeatureEngineer.create_churn_features(df)
CreateChurnFeaturesCall ==
    /\ ret.op \in {"read", "create_churn_features"}
    /\ ret' = Ret("create_churn_features", ret.arg, "",
                  Some(CreateChurnFeatures(ret.arg)))
    /\ UNCHANGED <<clf, call, kind, pred, disk, dq>>

\* ------------------------------------------------------------------------
\* loan/loan_model_clean.py: LoanPredictor.predict on form applications
\* ------------------------------------------------------------------------

\* the credit scores and purposes of the applications; NoPurpose is a form
\* without the purpose field
CreditScores == {600, 640, 650, 700}
NoPurpose == ""
Purposes == {NoPurpose, "Vacation", "Home Purchase"}

\* the application a form sends
LoanForm(amount, purpose, income, credit_score) ==
    IF purpose = NoPurpose
    THEN Frame(<<"amount", "income", "employment_years", "credit_score">>,
               <<[amount |-> amount, income |-> income,
                  employment_years |-> 5 * SCALE, credit_score |-> credit_score]>>)
    ELSE Frame(<<"amount", "purpose", "income", "employment_years", "credit_score">>,
               <<[amount |-> amount, purpose |-> purpose, income |-> income,
                  employment_years |-> 5 * SCALE, credit_score |-> credit_score]>>)

LoanForms ==
    { LoanForm(150000, purpose, income, credit_score) :
        purpose \in Purposes, income \in {3000, 6000}, credit_score \in CreditScores }

\* predictor.predict(loan_data) for a form application
PredictFormCall ==
    /\ kind = "loan_clean"
    /\ \E loan_data \in LoanForms :
          LET Called(out) ==
                  /\ pred' = out.obj
                  /\ ret' = Ret("predict_form", loan_data, out.raised, out.result)
          IN  Called(PredictLoanClean(pred, loan_data))
    /\ UNCHANGED <<clf, call, kind, disk, dq>>

\* ------------------------------------------------------------------------
\* Data quality: ai_models/data_quality_utils.py,
\* ai_models/shared/data_quality_utils.py and shared/data_cleaners.py.
\* A dataset is a record of cols (the column order), rows (rows[i][c] the
\* cell of row i in column c), dtypes (the dtype of each column) and index
\* (the label of each row).  A
\* number cell is held in fixed point, a missing cell (np.nan, None) is
\* NaN, a cell of an object column is a string or NaN.  The datasets of the
\* model hold finite numbers.
\* ------------------------------------------------------------------------

\* a dataset as pd.read_csv hands it over: the rows are labelled 0, 1, 2, ...
QFrame(cols, rows, dtypes) ==
    [cols |-> cols, rows |-> rows, dtypes |-> dtypes,
     index |-> [i \in 1..Len(rows) |-> i - 1]]

\* str.strip() and str.lower() on the strings of the model's datasets
StrStrip(s) == CASE s = " Male" -> "Male" [] s = " " -> "" [] OTHER -> s

StrLower(s) ==
    CASE s = "N/A" -> "n/a" [] s = "Male" -> "male" [] s = " Male" -> " male"
      [] s = "Female" -> "female" [] s = "Y" -> "y" [] s = "N" -> "n"
      [] OTHER -> s

\* pd.isnull of a cell, which is a number, a string or NaN
IsNull(v) == ToString(v) = ToString(NaN)

\* whether two cells hold the same thing (NaN taken as equal to NaN, as
\* DataFrame.equals and duplicated() take it)
SameCell(u, v) == ToString(u) = ToString(v)

\* DataFrame.equals together with the same row labels
SameFrame(a, b) ==
    /\ a.cols = b.cols
    /\ a.index = b.index
    /\ a.dtypes = b.dtypes
    /\ \A i \in 1..Len(a.rows) : \A c \in SeqToSet(a.cols) :
           SameCell(a.rows[i][c], b.rows[i][c])

\* astype(str) of a cell of an object column
AsStr(v) == IF IsNull(v) THEN "nan" ELSE v

\* df[c]
Cells(df, c) == Array([i \in 1..Len(df.rows) |-> df.rows[i][c]])

\* Series.dropna()
Dropna(col) == SelectSeq(col, LAMBDA v : ~IsNull(v))

\* Series.isnull().sum()
NullCount(col) == Len(col) - Len(Dropna(col))

IsNumericDtype(df, c) == df.dtypes[c] # "object"

IsIntegerDtype(df, c) == df.dtypes[c] \in {"int64", "uint8", "uint16", "int8", "int16"}

\* df.select_dtypes(include=[np.number]).columns
NumericColumns(df) == SelectSeq(df.cols, LAMBDA c : IsNumericDtype(df, c))

\* df.select_dtypes(include=['object']).columns
ObjectDtypeColumns(df) == SelectSeq(df.cols, LAMBDA c : ~IsNumericDtype(df, c))

\* df.drop(columns=S): the dataset without the columns of S
WithoutColumns(df, S) ==
    [cols |-> SelectSeq(df.cols, LAMBDA c : c \notin S),
     rows |-> Array([i \in 1..Len(df.rows) |->
                 Dict([c \in DOMAIN df.rows[i] \ S |-> df.rows[i][c]])]),
     dtypes |-> Dict([c \in DOMAIN df.dtypes \ S |-> df.dtypes[c]]),
     index |-> df.index]

\* df[~mask]: the rows i for which Removed(i) is false
WithoutRows(df, Removed(_)) ==
    LET Keep(kept) ==
            [df EXCEPT !.rows = Array([k \in 1..Len(kept) |-> df.rows[kept[k]]]),
                       !.index = Array([k \in 1..Len(kept) |-> df.index[kept[k]]])]
    IN  Keep(SelectSeq([i \in 1..Len(df.rows) |-> i], LAMBDA i : ~Removed(i)))

\* df.loc[mask, c] = value, Masked(v) saying whether a cell v is in the mask
WithMasked(df, c, Masked(_), value, dtype) ==
    [df EXCEPT !.rows = Array([i \in 1..Len(df.rows) |->
                            IF Masked(df.rows[i][c])
                            THEN [df.rows[i] EXCEPT ![c] = value]
                            ELSE df.rows[i]]),
               !.dtypes = [df.dtypes EXCEPT ![c] = dtype]]

\* df.dropna(how='all'): the rows that hold at least one value
DropEmptyRows(df) ==
    WithoutRows(df, LAMBDA i : \A c \in SeqToSet(df.cols) : IsNull(df.rows[i][c]))

Without(q, i) == SubSeq(q, 1, i - 1) \o SubSeq(q, i + 1, Len(q))

\* the numbers of q in ascending order
RECURSIVE SortNumbers(_)
SortNumbers(q) ==
    IF Len(q) = 0 THEN <<>>
    ELSE LET Least(i) == <<q[i]>> \o SortNumbers(Without(q, i))
         IN  Least(CHOOSE i \in 1..Len(q) : \A j \in 1..Len(q) : q[i] <= q[j])

\* den * Series.quantile(num / den) of the sorted values x, by the linear
\* interpolation pandas uses: the quantile lies at position (n - 1) * num / den
QuantileTimes(x, num, den) ==
    LET At(k, r) == IF r = 0 THEN den * x[k + 1]
                    ELSE den * x[k + 1] + r * (x[k + 2] - x[k + 1])
    IN  At((num * (Len(x) - 1)) \div den, (num * (Len(x) - 1)) % den)

\* how many cells of col equal v
Occurrences(col, v) == Len(SelectSeq(col, LAMBDA u : u = v))

\* Series.mode().iloc[0] of numbers: the smallest of the most frequent values
NumberMode(col) ==
    CHOOSE v \in SeqToSet(col) :
        \A u \in SeqToSet(col) :
            \/ Occurrences(col, v) > Occurrences(col, u)
            \/ Occurrences(col, v) = Occurrences(col, u) /\ v <= u

\* Series.mode().iloc[0] of strings: the first in sorted order of the most
\* frequent values
StringMode(col) ==
    CHOOSE v \in SeqToSet(col) :
        \A u \in SeqToSet(col) :
            \/ Occurrences(col, v) > Occurrences(col, u)
            \/ Occurrences(col, v) = Occurrences(col, u) /\ Rank(v) <= Rank(u)

\* Series.median() of sorted values
MedianOf(x) ==
    IF Len(x) % 2 = 1 THEN x[(Len(x) + 1) \div 2]
    ELSE RoundDiv(x[Len(x) \div 2] + x[Len(x) \div 2 + 1], 2)

\* Series.mean()
MeanOf(col) == RoundDiv(SumSeq(col), Len(col))

\* col != target_column, for a target_column that may be None
IsTarget(c, target_column) == IsSome(target_column) /\ target_column[1] = c

\* the column holds no value (vacuously so in a dataset without rows)
AllNull(df, c) == \A i \in 1..Len(df.rows) : IsNull(df.rows[i][c])

\* EnhancedDataCleaner._remove_empty_data
RemoveEmptyData(df, target_column) ==
    LET Dropped(df_clean, empty_columns) ==
            [df |-> WithoutColumns(df_clean, empty_columns),
             rows_removed |-> Len(df.rows) - Len(df_clean.rows),
             columns_removed |-> Cardinality(empty_columns)]
        Checked(df_clean) ==
            Dropped(df_clean, { c \in SeqToSet(df_clean.cols) :
                                  ~IsTarget(c, target_column) /\ AllNull(df_clean, c) })
    IN  Checked(DropEmptyRows(df))

\* missing_patterns of EnhancedDataCleaner._standardize_missing_values
MissingPatterns ==
    {"nan", "null", "none", "na", "n/a", "", " ", "undefined", "missing",
     "unknown", "#n/a", "#null!", "#div/0!", "#value!", "nil", "void", "empty",
     "-", "--", "_", "__", "?", "??", "NaN", "NULL", "NONE", "Null", "None"}

\* the cells (i, c) of the object columns for which Masked holds
MaskedCells(df, Masked(_)) ==
    { ic \in (1..Len(df.rows)) \X SeqToSet(ObjectDtypeColumns(df)) :
        Masked(df.rows[ic[1]][ic[2]]) }

\* df.loc[mask, col] = np.nan in every object column
WithNulled(df, Masked(_)) ==
    [df EXCEPT !.rows = Array([i \in 1..Len(df.rows) |->
        Dict([c \in DOMAIN df.rows[i] |->
            IF ~IsNumericDtype(df, c) /\ Masked(df.rows[i][c])
            THEN NaN ELSE df.rows[i][c]])])]

\* EnhancedDataCleaner._standardize_missing_values
StandardizeMissingValues(df) ==
    [df |-> WithNulled(df, LAMBDA v : StrStrip(AsStr(v)) \in MissingPatterns),
     values_standardized |->
         Cardinality(MaskedCells(df, LAMBDA v : StrStrip(AsStr(v)) \in MissingPatterns))]

\* 1000 times the 0.1th and the 99.9th percentile of a column's values
ExtremeBounds(col_data) ==
    IF Len(col_data) = 0 THEN None
    ELSE LET Quantiles(x) == Some([lower_bound |-> QuantileTimes(x, 1, 1000),
                                   upper_bound |-> QuantileTimes(x, 999, 1000)])
         IN  Quantiles(SortNumbers(col_data))

\* (df[col] > upper_bound * 100) | (df[col] < lower_bound * 100)
IsExtreme(v, bounds) ==
    /\ IsSome(bounds)
    /\ ~IsNaN(v)
    /\ \/ 10 * v > bounds[1].upper_bound
       \/ 10 * v < bounds[1].lower_bound

\* the dtype of a number column after np.nan is written into it
AfterNan(dtype) == IF dtype = "float32" THEN "float32" ELSE "float64"

\* EnhancedDataCleaner._handle_infinite_values
HandleInfiniteValues(df) ==
    LET Handled(bounds, extreme) ==
            [df |-> [df EXCEPT
                       !.rows = Array([i \in 1..Len(df.rows) |->
                           Dict([c \in DOMAIN df.rows[i] |->
                               IF <<i, c>> \in extreme THEN NaN ELSE df.rows[i][c]])]),
                       !.dtypes = Dict([c \in DOMAIN df.dtypes |->
                           IF \E i \in 1..Len(df.rows) : <<i, c>> \in extreme
                           THEN AfterNan(df.dtypes[c]) ELSE df.dtypes[c]])],
             values_handled |-> Cardinality(extreme)]
        Bounded(bounds) ==
            Handled(bounds,
                    { ic \in (1..Len(df.rows)) \X DOMAIN bounds :
                        IsExtreme(df.rows[ic[1]][ic[2]], bounds[ic[2]]) })
    IN  Bounded(Dict([c \in SeqToSet(NumericColumns(df)) |->
                        ExtremeBounds(Dropna(Cells(df, c)))]))

\* the largest and the smallest number of a non-empty column
MaxOf(col) == CHOOSE v \in SeqToSet(col) : \A u \in SeqToSet(col) : u <= v
MinOf(col) == CHOOSE v \in SeqToSet(col) : \A u \in SeqToSet(col) : v <= u

\* the dtype _optimize_data_types leaves a column with
OptimizedDtype(df, c) ==
    IF IsIntegerDtype(df, c)
    THEN IF Len(df.rows) = 0 THEN df.dtypes[c]
         ELSE LET Ranged(col_min, col_max) ==
                      IF col_min >= 0
                      THEN IF col_max < 255 * SCALE THEN "uint8"
                           ELSE IF col_max < 65535 * SCALE THEN "uint16"
                           ELSE df.dtypes[c]
                      ELSE IF col_min > -128 * SCALE /\ col_max < 127 * SCALE THEN "int8"
                           ELSE IF col_min > -32768 * SCALE /\ col_max < 32767 * SCALE
                           THEN "int16"
                           ELSE df.dtypes[c]
              IN  Ranged(MinOf(Cells(df, c)), MaxOf(Cells(df, c)))
    ELSE IF IsNumericDtype(df, c) THEN "float32"
    ELSE df.dtypes[c]

\* EnhancedDataCleaner._optimize_data_types: the values of the model's
\* datasets are in the range of the type a column is cast to
OptimizeDataTypes(df) ==
    [df EXCEPT !.dtypes = Dict([c \in DOMAIN df.dtypes |-> OptimizedDtype(df, c)])]

\* the greatest common divisor of a >= 0 and b >= 0
RECURSIVE Gcd(_, _)
Gcd(a, b) == IF b = 0 THEN a ELSE Gcd(b, a % b)

RECURSIVE GcdOf(_)
GcdOf(q) == IF Len(q) = 0 THEN 0 ELSE Gcd(Abs(Head(q)), GcdOf(Tail(q)))

\* abs(stats.skew(col_data)) > limit, limit_squared being limit ** 2.  The
\* skewness is m3 / m2 ** 1.5: with the deviations d[i] = n * x[i] - sum(x),
\* divided by what they have in common, it exceeds the limit when
\* n * sum(d^3)^2 > limit^2 * sum(d^2)^3; the skewness of equal values is nan
SkewExceeds(col_data, limit_squared) ==
    LET n == Len(col_data)
        Cubed(S2, S3) == n * S3 * S3 > limit_squared * S2 * S2 * S2
        Reduced(d) == Cubed(SumSeq([i \in 1..n |-> d[i] * d[i]]),
                            SumSeq([i \in 1..n |-> d[i] * d[i] * d[i]]))
        Common(d, g) == g > 0 /\ Reduced(Array([i \in 1..n |-> d[i] \div g]))
        Deviations(d) == Common(d, GcdOf(d))
    IN  Deviations(Array([i \in 1..n |-> n * col_data[i] - SumSeq(col_data)]))

\* the value _intelligent_imputation fills the missing cells of a column
\* with, or None where it fills nothing
FillValue(df, c) ==
    LET Chosen(col_data, missing_count) ==
            IF missing_count = 0 THEN None
            ELSE IF Len(col_data) = 0 THEN None
            ELSE IF ~IsNumericDtype(df, c) THEN Some(StringMode(col_data))
            ELSE IF SkewExceeds(col_data, 4) THEN Some(MedianOf(SortNumbers(col_data)))
            ELSE IF 10 * missing_count > 3 * Len(df.rows) THEN Some(NumberMode(col_data))
            ELSE Some(MeanOf(col_data))
    IN  Chosen(Dropna(Cells(df, c)), NullCount(Cells(df, c)))

\* df[col].fillna(fill[col]) in the columns fill has a value for
Filled(df, fill) ==
    [df EXCEPT !.rows = Array([i \in 1..Len(df.rows) |->
        Dict([c \in DOMAIN df.rows[i] |->
            IF c \in DOMAIN fill /\ IsSome(fill[c]) /\ IsNull(df.rows[i][c])
            THEN fill[c][1] ELSE df.rows[i][c]])])]

\* the missing cells of the columns fill has a value for
FilledCount(df, fill) ==
    Cardinality({ ic \in (1..Len(df.rows)) \X DOMAIN fill :
                    IsSome(fill[ic[2]]) /\ IsNull(df.rows[ic[1]][ic[2]]) })

\* EnhancedDataCleaner._intelligent_imputation
IntelligentImputation(df, target_column) ==
    LET Imputed(fill) == [df |-> Filled(df, fill),
                          values_imputed |-> FilledCount(df, fill)]
    IN  Imputed(Dict([c \in { c \in SeqToSet(df.cols) : ~IsTarget(c, target_column) } |->
                        FillValue(df, c)]))

\* the rows of df_clean the IQR rule of _handle_outliers marks in column col,
\* Q1 and Q3 being held four times over
OutlierRows(df_clean, col, col_data) ==
    IF Len(col_data) < 10 THEN {}
    ELSE LET Marked(Q1, IQR, Q3) ==
                 IF IQR > 0
                 THEN { i \in 1..Len(df_clean.rows) :
                          /\ ~IsNaN(df_clean.rows[i][col])
                          /\ \/ 4 * df_clean.rows[i][col] < Q1 - 3 * IQR
                             \/ 4 * df_clean.rows[i][col] > Q3 + 3 * IQR }
                 ELSE {}
             Quartiles(Q1, Q3) == Marked(Q1, Q3 - Q1, Q3)
             Ordered(x) == Quartiles(QuantileTimes(x, 1, 4), QuantileTimes(x, 3, 4))
         IN  Ordered(SortNumbers(col_data))

\* the loop of _handle_outliers over the columns still to do
RECURSIVE HandleOutliersIn(_, _)
HandleOutliersIn(df_clean, numeric_columns) ==
    IF Len(numeric_columns) = 0 THEN df_clean
    ELSE LET Masked(outlier_mask) ==
                 IF /\ Cardinality(outlier_mask) > 0
                    /\ 20 * Cardinality(outlier_mask) < Len(df_clean.rows)
                 THEN WithoutRows(df_clean, LAMBDA i : i \in outlier_mask)
                 ELSE df_clean
         IN  HandleOutliersIn(
                 Masked(OutlierRows(df_clean, Head(numeric_columns),
                                    Dropna(Cells(df_clean, Head(numeric_columns))))),
                 Tail(numeric_columns))

\* EnhancedDataCleaner._handle_outliers
HandleOutliers(df, target_column) ==
    LET Handled(df_clean) == [df |-> df_clean,
                              rows_removed |-> Len(df.rows) - Len(df_clean.rows)]
    IN  Handled(HandleOutliersIn(df,
                    SelectSeq(NumericColumns(df), LAMBDA c : ~IsTarget(c, target_column))))

\* part / whole * 100 as a fixed-point percentage
Percentage(part, whole) == RoundDiv(part * 100 * SCALE, whole)

\* the lower-cased strings one of the missing_patterns of
\* DataQualityAssessment.assess_completeness matches
IsMissingPattern(s) ==
    s \in {"", " ", "nan", "null", "none", "na", "n/a", "undefined", "missing",
           "unknown", "#n/a", "#null!", "#div/0!", "#value!", "nil", "void",
           "empty", "-", "--", "_", "__", "?", "??"}

\* the missing cells of the whole dataset: df.isnull().sum().sum()
StandardMissing(df) ==
    Cardinality({ ic \in (1..Len(df.rows)) \X SeqToSet(df.cols) :
                    IsNull(df.rows[ic[1]][ic[2]]) })

\* DataQualityAssessment.assess_completeness (ai_models/data_quality_utils.py)
AssessCompleteness(df) ==
    LET total_cells == Len(df.rows) * Len(df.cols)
        Counted(standard_missing, extended_missing) ==
            [total_cells |-> total_cells,
             standard_missing |-> standard_missing,
             extended_missing |-> extended_missing,
             infinite_values |-> 0,
             total_missing |-> standard_missing + extended_missing,
             completeness_percentage |->
                 IF total_cells > 0
                 THEN Percentage(total_cells - (standard_missing + extended_missing),
                                 total_cells)
                 ELSE 0,
             column_completeness |->
                 Dict([c \in SeqToSet(df.cols) |->
                     [missing_count |-> NullCount(Cells(df, c)),
                      completeness_percentage |->
                          IF Len(df.rows) > 0
                          THEN Percentage(Len(df.rows) - NullCount(Cells(df, c)),
                                          Len(df.rows))
                          ELSE 0]])]
    IN  Counted(StandardMissing(df),
                Cardinality(MaskedCells(df, LAMBDA v : IsMissingPattern(StrLower(AsStr(v))))))

\* the issues assess_consistency finds in an object column: a lower-cased
\* value met more than once among the cells, a value with outer whitespace
ObjectIssues(col_data) ==
    (IF \E i, j \in 1..Len(col_data) :
            i # j /\ StrLower(col_data[i]) = StrLower(col_data[j])
     THEN <<"Case inconsistencies">> ELSE <<>>)
    \o (IF \E i \in 1..Len(col_data) : col_data[i] # StrStrip(col_data[i])
        THEN <<"Whitespace inconsistencies">> ELSE <<>>)

\* the issues assess_consistency finds in a number column
NumericIssues(col_data) ==
    IF Len(col_data) = 0 THEN <<>>
    ELSE (IF 10 * Occurrences(col_data, 0) > Len(col_data)
          THEN <<"High zero count">> ELSE <<>>)
         \o (IF 10 * Occurrences(col_data, NumberMode(col_data)) > 3 * Len(col_data)
             THEN <<"High repetition">> ELSE <<>>)

\* DataQualityAssessment.assess_consistency (ai_models/data_quality_utils.py)
AssessConsistency(df) ==
    LET Scored(detailed_issues) ==
            [columns_with_issues |-> Cardinality(DOMAIN detailed_issues),
             total_columns |-> Len(df.cols),
             consistency_score |->
                 IF Len(df.cols) > 0
                 THEN Percentage(Len(df.cols) - Cardinality(DOMAIN detailed_issues),
                                 Len(df.cols))
                 ELSE 100 * SCALE,
             detailed_issues |-> detailed_issues]
        Issues(col_issues) ==
            Scored(Dict([c \in { c \in DOMAIN col_issues : Len(col_issues[c]) > 0 } |->
                            col_issues[c]]))
    IN  Issues(Dict([c \in SeqToSet(df.cols) |->
                       IF IsNumericDtype(df, c) THEN NumericIssues(Dropna(Cells(df, c)))
                       ELSE ObjectIssues(Dropna(Cells(df, c)))]))

\* the violations assess_validity counts in the values of one column:
\* pd.to_numeric turns every string of the model into NaN
Violations(df, c, rules, col_data) ==
    IF rules.type = "numeric"
    THEN IF ~IsNumericDtype(df, c) THEN Len(col_data)
         ELSE (IF IsSome(rules.min_value)
               THEN Len(SelectSeq(col_data, LAMBDA v : v < rules.min_value[1])) ELSE 0)
            + (IF IsSome(rules.max_value)
               THEN Len(SelectSeq(col_data, LAMBDA v : v > rules.max_value[1])) ELSE 0)
    ELSE IF rules.type = "categorical" /\ IsSome(rules.allowed_values)
    THEN Len(SelectSeq(col_data, LAMBDA v : v \notin rules.allowed_values[1]))
    ELSE 0

\* the sum of f over the set S
RECURSIVE SumOver(_, _)
SumOver(S, f) ==
    IF S = {} THEN 0
    ELSE LET Picked(c) == f[c] + SumOver(S \ {c}, f)
         IN  Picked(CHOOSE c \in S : TRUE)

\* DataQualityAssessment.assess_validity (ai_models/data_quality_utils.py)
AssessValidity(df, validation_rules) ==
    LET Summed(column_results, total_violations, total_values) ==
            [total_violations |-> total_violations,
             total_validated_values |-> total_values,
             validity_percentage |->
                 IF total_values > 0
                 THEN Percentage(total_values - total_violations, total_values)
                 ELSE 100 * SCALE,
             column_results |-> column_results]
        Totalled(column_results, present) ==
            Summed(column_results,
                   SumOver(present, [c \in present |-> column_results[c].violations]),
                   SumOver(present, [c \in present |-> Len(Dropna(Cells(df, c)))]))
        Result(c, violations, values) ==
            [status |-> IF violations = 0 THEN "valid" ELSE "invalid",
             violations |-> violations,
             violation_percentage |->
                 IF values > 0 THEN Percentage(violations, values) ELSE 0]
    IN  Totalled(Dict([c \in DOMAIN validation_rules |->
                     IF ~HasCol(df, c)
                     THEN [status |-> "column_missing", violations |-> 0,
                           violation_percentage |-> 0]
                     ELSE Result(c, Violations(df, c, validation_rules[c],
                                               Dropna(Cells(df, c))),
                                 Len(Dropna(Cells(df, c))))]),
                 { c \in DOMAIN validation_rules : HasCol(df, c) })

\* DataQualityAssessment._get_quality_grade
GetQualityGrade(score) ==
    IF score >= 95 * SCALE THEN "A+"
    ELSE IF score >= 90 * SCALE THEN "A"
    ELSE IF score >= 85 * SCALE THEN "B+"
    ELSE IF score >= 80 * SCALE THEN "B"
    ELSE IF score >= 75 * SCALE THEN "C+"
    ELSE IF score >= 70 * SCALE THEN "C"
    ELSE IF score >= 60 * SCALE THEN "D"
    ELSE "F"

\* a percentage between 0 and 100 as f"{p:.1f}"
OneDecimal(p) ==
    LET Tenths(t) == ToString(t \div 10) \o "." \o ToString(t % 10)
    IN  Tenths(RoundDiv(p * 10, SCALE))

\* the recommendation for a column of low completeness
LowCompleteness(col, completeness_percentage) ==
    "Column '" \o col \o "' has low completeness ("
        \o OneDecimal(completeness_percentage)
        \o "%) - consider removal or targeted data collection"

\* DataQualityAssessment._generate_recommendations: the model's datasets
\* take far less than the 100 MB of memory that has a recommendation of its own
GenerateRecommendations(cols, report) ==
    LET OrGood(recommendations) ==
            IF Len(recommendations) = 0
            THEN <<"Data quality is good - maintain current data management practices">>
            ELSE recommendations
        low == SelectSeq(cols, LAMBDA c :
                   report.completeness.column_completeness[c].completeness_percentage
                       < 70 * SCALE)
    IN  OrGood(
            (IF report.completeness.completeness_percentage < 90 * SCALE
             THEN <<"Address missing values through imputation or data collection">>
             ELSE <<>>)
         \o (IF report.consistency.consistency_score < 80 * SCALE
             THEN <<"Standardize data formats and resolve inconsistencies">>
             ELSE <<>>)
         \o (IF IsSome(report.validity)
                /\ report.validity[1].validity_percentage < 85 * SCALE
             THEN <<"Implement data validation rules and clean invalid values">>
             ELSE <<>>)
         \o [k \in 1..Len(low) |->
                LowCompleteness(low[k],
                    report.completeness.column_completeness[low[k]]
                        .completeness_percentage)])

\* DataQualityAssessment.generate_quality_report
\* (ai_models/data_quality_utils.py)
GenerateQualityReport(df, validation_rules) ==
    LET Graded(report, overall_score) ==
            [completeness |-> report.completeness,
             consistency |-> report.consistency,
             validity |-> report.validity,
             overall_quality |->
                 [score |-> overall_score,
                  grade |-> GetQualityGrade(overall_score),
                  recommendations |-> GenerateRecommendations(df.cols, report)]]
        Assessed(report) ==
            Graded(report,
                   RoundDiv(report.completeness.completeness_percentage * 40
                            + report.consistency.consistency_score * 30
                            + (IF IsSome(report.validity)
                               THEN report.validity[1].validity_percentage
                               ELSE 100 * SCALE) * 30,
                            100))
    IN  Assessed([completeness |-> AssessCompleteness(df),
                  consistency |-> AssessConsistency(df),
                  validity |-> IF DOMAIN validation_rules # {}
                               THEN Some(AssessValidity(df, validation_rules))
                               ELSE None])

\* A DataFrame object in a function's hands: caller is the dataset of the
\* caller, df the data of the object, own whether the object is another one
\* than the caller's.
Borrowed(df) == [caller |-> df, df |-> df, own |-> FALSE]

\* an operation done in place of the one that makes a new object
InPlace(w, frame) ==
    [caller |-> IF w.own THEN w.caller ELSE frame, df |-> frame, own |-> w.own]

\* df.copy(), df.dropna(), df.drop(), df[mask]: a new object holding frame
NewObject(w, frame) == [caller |-> w.caller, df |-> frame, own |-> TRUE]

\* df.loc[mask, col] = value, df[col] = series: the object now holds frame
Written(w, frame) ==
    [caller |-> IF w.own THEN w.caller ELSE frame, df |-> frame, own |-> w.own]

\* what a call on a dataset leaves: the caller's dataset, the exception
\* raised, the cleaned dataset and the report returned
QReturned(w, cleaned, report) ==
    [data |-> w.caller, raised |-> "", cleaned |-> cleaned, report |-> report]

QRaised(w, exc) == [data |-> w.caller, raised |-> exc, cleaned |-> None, report |-> None]

Shape(df) == <<Len(df.rows), Len(df.cols)>>

\* EnhancedDataCleaner._calculate_cleaning_effectiveness
\* (ai_models/data_quality_utils.py), for an original with rows and columns
CalculateCleaningEffectiveness(df_original, df_clean) ==
    [completeness_improvement |->
         AssessCompleteness(df_clean).completeness_percentage
             - AssessCompleteness(df_original).completeness_percentage,
     data_retention_rate |-> Percentage(Len(df_clean.rows), Len(df_original.rows)),
     feature_retention_rate |-> Percentage(Len(df_clean.cols), Len(df_original.cols))]

\* EnhancedDataCleaner.clean_dataset (ai_models/data_quality_utils.py)
CleanDataset(df, target_column, aggressive_cleaning) ==
    LET Validated(w, data_removed) ==
            IF Len(df.rows) = 0 \/ Len(df.cols) = 0
            THEN QRaised(w, "ZeroDivisionError: division by zero")
            ELSE QReturned(w, Some(w.df),
                    Some([data_removed |-> data_removed,
                          final_shape |-> Shape(w.df),
                          final_completeness |->
                              AssessCompleteness(w.df).completeness_percentage,
                          cleaning_effectiveness |->
                              CalculateCleaningEffectiveness(df, w.df)]))
        Outliers(w, data_removed, step_report) ==
            Validated(NewObject(w, step_report.df),
                      [data_removed EXCEPT !.rows = @ + step_report.rows_removed])
        Aggressive(w, data_removed) ==
            IF aggressive_cleaning
            THEN Outliers(w, data_removed, HandleOutliers(w.df, target_column))
            ELSE Validated(w, data_removed)
        Imputed(w, data_removed, step_report) ==
            Aggressive(Written(NewObject(w, w.df), step_report.df),
                       [data_removed EXCEPT !.values = @ + step_report.values_imputed])
        Optimized(w, data_removed) ==
            Imputed(w, data_removed, IntelligentImputation(w.df, target_column))
        Typed(w, data_removed) ==
            Optimized(Written(NewObject(w, w.df), OptimizeDataTypes(w.df)), data_removed)
        Handled(w, data_removed, step_report) ==
            Typed(Written(NewObject(w, w.df), step_report.df),
                  [data_removed EXCEPT !.values = @ + step_report.values_handled])
        Standardized(w, data_removed, step_report) ==
            Handled(Written(NewObject(w, w.df), step_report.df),
                    [data_removed EXCEPT !.values = @ + step_report.values_standardized],
                    HandleInfiniteValues(step_report.df))
        Emptied(w, step_report) ==
            Standardized(NewObject(w, step_report.df),
                         [rows |-> step_report.rows_removed,
                          columns |-> step_report.columns_removed,
                          values |-> 0],
                         StandardizeMissingValues(step_report.df))
        Copied(w) == Emptied(w, RemoveEmptyData(w.df, target_column))
    IN  Copied(NewObject(Borrowed(df), df))

\* the rows are labelled 0 .. n-1 in order, as a fresh pd.Series is
IsRangeIndex(df) == \A i \in 1..Len(df.index) : df.index[i] = i - 1

\* the rows the 1.5 * IQR rule of _remove_outliers marks in one column, Q1
\* and Q3 being held four times over; the quantiles of no values are NaN
ColOutliers(df_clean, col, col_data) ==
    IF Len(col_data) = 0 THEN {}
    ELSE LET Marked(Q1, IQR, Q3) ==
                 { i \in 1..Len(df_clean.rows) :
                     /\ ~IsNaN(df_clean.rows[i][col])
                     /\ \/ 8 * df_clean.rows[i][col] < 2 * Q1 - 3 * IQR
                        \/ 8 * df_clean.rows[i][col] > 2 * Q3 + 3 * IQR }
             Quartiles(Q1, Q3) == Marked(Q1, Q3 - Q1, Q3)
             Ordered(x) == Quartiles(QuantileTimes(x, 1, 4), QuantileTimes(x, 3, 4))
         IN  Ordered(SortNumbers(col_data))

\* EnhancedDataCleaner._remove_outliers (shared/data_quality_utils.py): the
\* mask is a Series labelled 0 .. n-1, |= keeps its labels, and a DataFrame
\* whose labels are not all in the mask cannot be indexed with it
RemoveOutliers(df, target_column) ==
    LET numeric_cols == SelectSeq(NumericColumns(df), LAMBDA c : ~IsTarget(c, target_column))
    IN  IF ~IsRangeIndex(df)
        THEN [df |-> df,
              raised |-> "IndexingError: Unalignable boolean Series provided as indexer"]
        ELSE [df |-> WithoutRows(df, LAMBDA i :
                        \E k \in 1..Len(numeric_cols) :
                            i \in ColOutliers(df, numeric_cols[k],
                                              Dropna(Cells(df, numeric_cols[k])))),
              raised |-> ""]

\* the value _impute_missing_values fills the missing cells of a column
\* with, or None where the column has no value to fill with
SharedFillValue(df, c) ==
    LET Chosen(col_data, missing_count) ==
            IF missing_count = 0 \/ Len(col_data) = 0 THEN None
            ELSE IF IsNumericDtype(df, c) THEN Some(MedianOf(SortNumbers(col_data)))
            ELSE Some(StringMode(col_data))
    IN  Chosen(Dropna(Cells(df, c)), NullCount(Cells(df, c)))

\* EnhancedDataCleaner._impute_missing_values (shared/data_quality_utils.py)
ImputeMissingValues(df, target_column) ==
    Filled(df, Dict([c \in { c \in SeqToSet(df.cols) : ~IsTarget(c, target_column) } |->
                        SharedFillValue(df, c)]))

\* the share of the cells that hold a value; nan for a dataset without cells
CellCompleteness(df) ==
    IF Len(df.rows) * Len(df.cols) = 0 THEN NaN
    ELSE Percentage(Len(df.rows) * Len(df.cols) - StandardMissing(df),
                    Len(df.rows) * Len(df.cols))

\* EnhancedDataCleaner._calculate_cleaning_effectiveness
\* (shared/data_quality_utils.py), for an original with rows and columns
SharedCleaningEffectiveness(original_df, cleaned_df) ==
    [data_retention_rate |-> Percentage(Len(cleaned_df.rows), Len(original_df.rows)),
     feature_retention_rate |-> Percentage(Len(cleaned_df.cols), Len(original_df.cols)),
     completeness_improvement |->
         IF IsNaN(CellCompleteness(cleaned_df)) THEN NaN
         ELSE CellCompleteness(cleaned_df) - CellCompleteness(original_df),
     original_completeness |-> CellCompleteness(original_df),
     final_completeness |-> CellCompleteness(cleaned_df)]

\* the columns clean_dataset drops for their share of missing values: more
\* than half when cleaning aggressively, more than 80% otherwise; the share
\* is nan in a dataset without rows
ColumnsToDrop(df_clean, target_column, aggressive_cleaning) ==
    { c \in SeqToSet(df_clean.cols) :
        /\ ~IsTarget(c, target_column)
        /\ Len(df_clean.rows) > 0
        /\ IF aggressive_cleaning
           THEN 2 * NullCount(Cells(df_clean, c)) > Len(df_clean.rows)
           ELSE 10 * NullCount(Cells(df_clean, c)) > 8 * Len(df_clean.rows) }

\* EnhancedDataCleaner.clean_dataset (shared/data_quality_utils.py)
SharedCleanDataset(df, target_column, aggressive_cleaning) ==
    LET Reported(w) ==
            IF Len(df.rows) = 0 \/ Len(df.cols) = 0
            THEN QRaised(w, "ZeroDivisionError: division by zero")
            ELSE QReturned(w, Some(w.df),
                    Some([cleaning_effectiveness |-> SharedCleaningEffectiveness(df, w.df),
                          final_shape |-> Shape(w.df),
                          final_completeness |-> CellCompleteness(w.df)]))
        Imputed(w) == Reported(Written(NewObject(w, w.df),
                                       ImputeMissingValues(w.df, target_column)))
        Outliers(w, removed) ==
            IF removed.raised # "" THEN QRaised(w, removed.raised)
            ELSE Imputed(NewObject(w, removed.df))
        Dropped(w) ==
            IF aggressive_cleaning THEN Outliers(w, RemoveOutliers(w.df, target_column))
            ELSE Imputed(w)
        Emptied(w, columns_to_drop) ==
            Dropped(IF columns_to_drop = {} THEN w
                    ELSE NewObject(w, WithoutColumns(w.df, columns_to_drop)))
        Copied(w) ==
            Emptied(w, ColumnsToDrop(w.df, target_column, aggressive_cleaning))
    IN  Copied(NewObject(NewObject(Borrowed(df), df), DropEmptyRows(df)))

\* missing_patterns of DataCleaner.comprehensive_clean
CleanerMissingPatterns ==
    {"nan", "null", "none", "na", "n/a", "", " ", "undefined", "missing",
     "unknown", "#n/a", "#null!", "#div/0!", "#value!", "nil", "void", "empty",
     "-", "--", "?", "??", "NaN", "NULL", "NONE"}

\* the value DataCleaner._intelligent_imputation fills the missing cells of
\* a column with, or None where it fills nothing
CleanerFillValue(df, c) ==
    LET Chosen(col_data, missing_count) ==
            IF missing_count = 0 \/ Len(col_data) = 0 THEN None
            ELSE IF ~IsNumericDtype(df, c) THEN Some(StringMode(col_data))
            ELSE IF SkewExceeds(col_data, 1) THEN Some(MedianOf(SortNumbers(col_data)))
            ELSE Some(MeanOf(col_data))
    IN  Chosen(Dropna(Cells(df, c)), NullCount(Cells(df, c)))

\* DataCleaner._intelligent_imputation
CleanerImputation(df, target_col) ==
    LET Imputed(fill) == [df |-> Filled(df, fill), total_imputed |-> FilledCount(df, fill)]
    IN  Imputed(Dict([c \in { c \in SeqToSet(df.cols) : ~IsTarget(c, target_col) } |->
                        CleanerFillValue(df, c)]))

\* the dtype DataCleaner._optimize_data_types leaves a column with
CleanerOptimizedDtype(df, c) ==
    IF IsIntegerDtype(df, c)
    THEN IF Len(df.rows) = 0 THEN df.dtypes[c]
         ELSE LET Ranged(col_min, col_max) ==
                      IF col_min >= 0
                      THEN IF col_max < 255 * SCALE THEN "uint8"
                           ELSE IF col_max < 65535 * SCALE THEN "uint16"
                           ELSE "uint32"
                      ELSE IF col_min > -128 * SCALE /\ col_max < 127 * SCALE THEN "int8"
                           ELSE IF col_min > -32768 * SCALE /\ col_max < 32767 * SCALE
                           THEN "int16"
                           ELSE "int32"
              IN  Ranged(MinOf(Cells(df, c)), MaxOf(Cells(df, c)))
    ELSE IF IsNumericDtype(df, c) THEN "float32"
    ELSE df.dtypes[c]

\* df.duplicated().sum(): the rows equal to a row before them
DuplicateRows(df) ==
    Cardinality({ i \in 1..Len(df.rows) :
                    \E j \in 1..(i - 1) :
                        \A c \in SeqToSet(df.cols) : SameCell(df.rows[j][c], df.rows[i][c]) })

\* DataCleaner._calculate_quality_score
CalculateQualityScore(df) ==
    IF Len(df.rows) * Len(df.cols) = 0 THEN 0
    ELSE RoundDiv(70 * Percentage(Len(df.rows) * Len(df.cols) - StandardMissing(df),
                                  Len(df.rows) * Len(df.cols))
                  + 30 * Percentage(Len(df.rows) - DuplicateRows(df), Len(df.rows)),
                  100)

\* DataCleaner.comprehensive_clean
ComprehensiveClean(df, target_col) ==
    LET Scored(w, report) ==
            QReturned(w, Some(w.df),
                Some([rows_removed |-> report.rows_removed,
                      columns_removed |-> report.columns_removed,
                      values_imputed |-> report.values_imputed,
                      final_shape |-> Shape(w.df),
                      data_quality_score |-> CalculateQualityScore(w.df)]))
        Optimized(w, report) ==
            Scored(Written(NewObject(w, w.df),
                       [w.df EXCEPT !.dtypes = Dict([c \in DOMAIN w.df.dtypes |->
                                                      CleanerOptimizedDtype(w.df, c)])]),
                   report)
        Imputed(w, report, imputation_report) ==
            Optimized(Written(w, imputation_report.df),
                      [report EXCEPT !.values_imputed = @ + imputation_report.total_imputed])
        Replaced(w, report) ==
            Imputed(w, report, CleanerImputation(w.df, target_col))
        Standardized(w, report, values_replaced) ==
            Replaced(Written(w, WithNulled(w.df,
                                LAMBDA v : StrLower(StrStrip(AsStr(v)))
                                               \in CleanerMissingPatterns)),
                     [report EXCEPT !.values_imputed = @ + values_replaced])
        Emptied(w, report) ==
            Standardized(w, report,
                Cardinality(MaskedCells(w.df,
                    LAMBDA v : StrLower(StrStrip(AsStr(v))) \in CleanerMissingPatterns)))
        Columns(w, rows_removed, empty) ==
            Emptied(NewObject(w, WithoutColumns(w.df, empty)),
                    [rows_removed |-> rows_removed,
                     columns_removed |-> Cardinality(empty),
                     values_imputed |-> 0])
        Rows(w) ==
            Columns(w, Len(df.rows) - Len(w.df.rows),
                    { c \in SeqToSet(w.df.cols) : AllNull(w.df, c) })
    IN  Rows(NewObject(NewObject(Borrowed(df), df), DropEmptyRows(df)))

\* DataQualityAssessment.assess_completeness (shared/data_quality_utils.py)
SharedAssessCompleteness(df) ==
    [total_cells |-> Len(df.rows) * Len(df.cols),
     missing_cells |-> StandardMissing(df),
     completeness_percentage |-> CellCompleteness(df),
     missing_by_column |-> Dict([c \in SeqToSet(df.cols) |-> NullCount(Cells(df, c))]),
     columns_with_missing |-> SelectSeq(df.cols, LAMBDA c : NullCount(Cells(df, c)) > 0)]

\* an object column pd.to_numeric cannot convert (it holds a string) whose
\* cells are of more than one type (it holds a missing cell as well)
HasMixedTypes(df, c) ==
    /\ ~IsNumericDtype(df, c)
    /\ Len(Dropna(Cells(df, c))) > 0
    /\ NullCount(Cells(df, c)) > 0

\* an object column two of whose distinct values are equal once stripped
\* and lower-cased
HasCaseSpacingIssues(df, c) ==
    /\ ~IsNumericDtype(df, c)
    /\ \E u, v \in SeqToSet(Dropna(Cells(df, c))) :
           u # v /\ StrLower(StrStrip(u)) = StrLower(StrStrip(v))

\* DataQualityAssessment.assess_consistency (shared/data_quality_utils.py)
SharedAssessConsistency(df) ==
    LET Scored(mixed, spaced) ==
            [consistency_score |->
                 IF 100 * SCALE - 5 * SCALE * Len(mixed) - 3 * SCALE * Len(spaced) < 0
                 THEN 0
                 ELSE 100 * SCALE - 5 * SCALE * Len(mixed) - 3 * SCALE * Len(spaced),
             consistency_issues |->
                 [k \in 1..Len(mixed) |->
                     "Mixed data types in column '" \o mixed[k] \o "'"]
                 \o [k \in 1..Len(spaced) |->
                     "Potential case/spacing inconsistencies in column '"
                         \o spaced[k] \o "'"],
             issues_count |-> Len(mixed) + Len(spaced)]
    IN  Scored(SelectSeq(df.cols, LAMBDA c : HasMixedTypes(df, c)),
               SelectSeq(df.cols, LAMBDA c : HasCaseSpacingIssues(df, c)))

\* a numeric rule with a bound compares the column's values with a number,
\* which strings do not allow
ComparesStrings(df, validation_rules) ==
    \E c \in DOMAIN validation_rules :
        /\ HasCol(df, c)
        /\ validation_rules[c].type = "numeric"
        /\ IsSome(validation_rules[c].min_value) \/ IsSome(validation_rules[c].max_value)
        /\ ~IsNumericDtype(df, c)
        /\ Len(Dropna(Cells(df, c))) > 0

\* DataQualityAssessment.assess_validity (shared/data_quality_utils.py)
SharedAssessValidity(df, validation_rules) ==
    LET Summed(total_values, invalid_values) ==
            [raised |-> "",
             validity_percentage |->
                 IF total_values > 0
                 THEN Percentage(total_values - invalid_values, total_values)
                 ELSE 100 * SCALE,
             total_values_checked |-> total_values,
             invalid_values_count |-> invalid_values]
        Checked(present) ==
            Summed(SumOver(present, [c \in present |-> Len(Dropna(Cells(df, c)))]),
                   SumOver(present, [c \in present |->
                       IF validation_rules[c].type = "numeric" /\ ~IsNumericDtype(df, c)
                       THEN 0
                       ELSE Violations(df, c, validation_rules[c],
                                       Dropna(Cells(df, c)))]))
    IN  IF ComparesStrings(df, validation_rules)
        THEN [raised |-> "TypeError: '<' not supported between instances of 'str' and 'int'",
              validity_percentage |-> NaN, total_values_checked |-> 0,
              invalid_values_count |-> 0]
        ELSE Checked({ c \in DOMAIN validation_rules : HasCol(df, c) })

\* DataQualityAssessment.assess_uniqueness
AssessUniqueness(df) ==
    [duplicate_rows |-> DuplicateRows(df),
     uniqueness_percentage |->
         IF Len(df.rows) > 0
         THEN Percentage(Len(df.rows) - DuplicateRows(df), Len(df.rows))
         ELSE 100 * SCALE,
     column_uniqueness |->
         Dict([c \in SeqToSet(df.cols) |->
             IF Len(Dropna(Cells(df, c))) > 0
             THEN Percentage(Cardinality(SeqToSet(Dropna(Cells(df, c)))),
                             Len(Dropna(Cells(df, c))))
             ELSE 100 * SCALE])]

\* DataQualityAssessment.assess_outliers: the outliers of the number columns
\* that hold a value
AssessOutliers(df) ==
    LET Counted(c, col_data, outliers) ==
            [outlier_count |-> Cardinality(outliers),
             outlier_percentage |-> Percentage(Cardinality(outliers), Len(col_data))]
        Of(c, col_data) == Counted(c, col_data, ColOutliers(df, c, col_data))
    IN  Dict([c \in { c \in SeqToSet(NumericColumns(df)) :
                        Len(Dropna(Cells(df, c))) > 0 } |->
                 Of(c, Dropna(Cells(df, c)))])

\* DataQualityAssessment._calculate_overall_quality: a nan score is below
\* no limit
CalculateOverallQuality(report) ==
    LET Graded(score) ==
            [score |-> score,
             grade |-> IF Ge(score, 90 * SCALE) THEN "A"
                       ELSE IF Ge(score, 80 * SCALE) THEN "B"
                       ELSE IF Ge(score, 70 * SCALE) THEN "C"
                       ELSE IF Ge(score, 60 * SCALE) THEN "D"
                       ELSE "F",
             recommendations |->
                 (IF ~IsNaN(report.completeness.completeness_percentage)
                     /\ report.completeness.completeness_percentage < 95 * SCALE
                  THEN <<"Address missing values through imputation or data collection">>
                  ELSE <<>>)
              \o (IF report.consistency.consistency_score < 90 * SCALE
                  THEN <<"Standardize data formats and resolve inconsistencies">>
                  ELSE <<>>)
              \o (IF report.validity.validity_percentage < 95 * SCALE
                  THEN <<"Validate and correct out-of-range or invalid values">>
                  ELSE <<>>)
              \o (IF report.uniqueness.uniqueness_percentage < 95 * SCALE
                  THEN <<"Remove duplicate records">>
                  ELSE <<>>)]
    IN  Graded(IF IsNaN(report.completeness.completeness_percentage) THEN NaN
               ELSE RoundDiv(report.completeness.completeness_percentage * 30
                             + report.consistency.consistency_score * 25
                             + report.validity.validity_percentage * 25
                             + report.uniqueness.uniqueness_percentage * 20,
                             100))

\* DataQualityAssessment.generate_quality_report (shared/data_quality_utils.py)
SharedGenerateQualityReport(df, validation_rules) ==
    LET Overall(report) ==
            QReturned(Borrowed(df), None,
                Some([completeness |-> report.completeness,
                      consistency |-> report.consistency,
                      validity |-> report.validity,
                      uniqueness |-> report.uniqueness,
                      outliers |-> report.outliers,
                      overall_quality |-> CalculateOverallQuality(report)]))
        Valid(validity) ==
            IF validity.raised # "" THEN QRaised(Borrowed(df), validity.raised)
            ELSE Overall([completeness |-> SharedAssessCompleteness(df),
                          consistency |-> SharedAssessConsistency(df),
                          validity |-> validity,
                          uniqueness |-> AssessUniqueness(df),
                          outliers |-> AssessOutliers(df)])
    IN  Valid(SharedAssessValidity(df, validation_rules))

\* the datasets handed to the assessors and the cleaners
CustomersData ==
    QFrame(<<"Age", "Gender", "Exited">>,
           <<[Age |-> 30 * SCALE, Gender |-> "Male", Exited |-> 0],
             [Age |-> 40 * SCALE, Gender |-> "Female", Exited |-> SCALE],
             [Age |-> 50 * SCALE, Gender |-> "Male", Exited |-> 0]>>,
           [Age |-> "int64", Gender |-> "object", Exited |-> "int64"])

\* a column of "N/A" strings, a column with a missing value
NotesData ==
    QFrame(<<"Notes", "Balance", "Gender">>,
           <<[Notes |-> "N/A", Balance |-> NaN, Gender |-> "Male"],
             [Notes |-> "N/A", Balance |-> -40 * SCALE, Gender |-> " Male"],
             [Notes |-> "N/A", Balance |-> 50 * SCALE, Gender |-> "male"]>>,
           [Notes |-> "object", Balance |-> "float64", Gender |-> "object"])

\* a target column without a value
UnlabelledData ==
    QFrame(<<"Tenure", "Exited">>,
           <<[Tenure |-> 0, Exited |-> NaN],
             [Tenure |-> 0, Exited |-> NaN],
             [Tenure |-> 0, Exited |-> NaN]>>,
           [Tenure |-> "int64", Exited |-> "float64"])

\* a row without a value between two rows with values
GappedData ==
    QFrame(<<"Score", "Gender", "Exited">>,
           <<[Score |-> -SCALE, Gender |-> "Male", Exited |-> SCALE],
             [Score |-> NaN, Gender |-> NaN, Exited |-> NaN],
             [Score |-> SCALE, Gender |-> "?", Exited |-> 0]>>,
           [Score |-> "float64", Gender |-> "object", Exited |-> "float64"])

\* a column whose outlier hides two more
ScoresData ==
    QFrame(<<"Score">>,
           [i \in 1..6 |-> [Score |-> <<-1, 0, 0, 0, 1, 8>>[i] * SCALE]],
           [Score |-> "int64"])

\* twenty-one balances, one of them far from the others
BalancesData ==
    QFrame(<<"Balance">>,
           [i \in 1..21 |->
               [Balance |-> (IF i <= 2 THEN 0 ELSE IF i <= 11 THEN 1
                             ELSE IF i <= 20 THEN 2 ELSE 20) * SCALE]],
           [Balance |-> "int64"])

\* a skewed column with one value missing in five
SkewedData ==
    QFrame(<<"Age", "Balance">>,
           [i \in 1..5 |-> [Age |-> (25 + 5 * i) * SCALE,
                            Balance |-> <<0, 0, 0, NaN, SCALE>>[i]]],
           [Age |-> "int64", Balance |-> "float64"])

\* a file with a header and no rows
EmptyData == QFrame(<<"Age", "Exited">>, <<>>, [Age |-> "object", Exited |-> "object"])

\* a file whose two text columns are empty in two of its three lines
SparseTextData ==
    QFrame(<<"Notes", "Gender">>,
           <<[Notes |-> NaN, Gender |-> NaN],
             [Notes |-> NaN, Gender |-> NaN],
             [Notes |-> "call back", Gender |-> "Male"]>>,
           [Notes |-> "object", Gender |-> "object"])

Datasets ==
    {CustomersData, NotesData, UnlabelledData, GappedData, ScoresData, BalancesData,
     SkewedData, SparseTextData, EmptyData}

\* the target_column arguments
TargetColumns == {None, Some("Exited")}

\* the validation_rules arguments
NumericRule(min_value, max_value) ==
    [type |-> "numeric", min_value |-> Some(min_value), max_value |-> Some(max_value),
     allowed_values |-> None]

CategoricalRule(allowed_values) ==
    [type |-> "categorical", min_value |-> None, max_value |-> None,
     allowed_values |-> Some(allowed_values)]

ValidationRules ==
    { [c \in {} |-> NumericRule(0, 0)],
      [c \in {"Age", "Balance"} |-> NumericRule(18 * SCALE, 100 * SCALE)],
      [c \in {"Gender", "Surname"} |-> CategoricalRule({"Male", "Female"})] }

\* the two modules that define DataQualityAssessment and EnhancedDataCleaner
QualityModules == {"ai_models.data_quality_utils", "ai_models.shared.data_quality_utils"}

\* how many times in a row a dataset is cleaned
MaxPasses == 3

\* the state of the data-quality session: the caller's dataset, and the
\* last call with its arguments (arg being the dataset as it was handed
\* over), the exception it raised and what it returned
NoQuality ==
    [data |-> EmptyData, op |-> "none", module |-> "", arg |-> EmptyData,
     target_column |-> None, aggressive_cleaning |-> FALSE, validation_rules |-> <<>>,
     raised |-> "", cleaned |-> None, report |-> None, pass |-> 0]

QCall(op, module, arg, out) ==
    [NoQuality EXCEPT !.data = out.data, !.op = op, !.module = module, !.arg = arg,
                      !.raised = out.raised, !.cleaned = out.cleaned,
                      !.report = out.report]

\* the caller reads a dataset
ReadDataset ==
    /\ \E df \in Datasets : dq' = [NoQuality EXCEPT !.data = df, !.op = "read_csv"]
    /\ UNCHANGED <<clf, call, kind, pred, disk, ret>>

\* clean_dataset of either EnhancedDataCleaner
CleanWith(module, df, target_column, aggressive_cleaning) ==
    IF module = "ai_models.data_quality_utils"
    THEN CleanDataset(df, target_column, aggressive_cleaning)
    ELSE SharedCleanDataset(df, target_column, aggressive_cleaning)

\* cleaner.clean_dataset(df, target_column, aggressive_cleaning)
CleanDatasetCall ==
    /\ dq.op # "none"
    /\ \E module \in QualityModules, target_column \in TargetColumns,
          aggressive_cleaning \in BOOLEAN :
          dq' = [QCall("clean_dataset", module, dq.data,
                       CleanWith(module, dq.data, target_column, aggressive_cleaning))
                   EXCEPT !.target_column = target_column,
                          !.aggressive_cleaning = aggressive_cleaning,
                          !.pass = 1]
    /\ UNCHANGED <<clf, call, kind, pred, disk, ret>>

\* the caller cleans the dataset the last clean_dataset returned, with the
\* same cleaner and the same arguments
CleanAgainCall ==
    /\ dq.op = "clean_dataset"
    /\ IsSome(dq.cleaned)
    /\ dq.pass < MaxPasses
    /\ dq' = [QCall("clean_dataset", dq.module, dq.cleaned[1],
                    CleanWith(dq.module, dq.cleaned[1], dq.target_column,
                              dq.aggressive_cleaning))
                EXCEPT !.target_column = dq.target_column,
                       !.aggressive_cleaning = dq.aggressive_cleaning,
                       !.pass = dq.pass + 1]
    /\ UNCHANGED <<clf, call, kind, pred, disk, ret>>

\* DataCleaner().comprehensive_clean(df, target_col)
ComprehensiveCleanCall ==
    /\ dq.op # "none"
    /\ \E target_col \in TargetColumns :
          dq' = [QCall("comprehensive_clean", "ai_models.shared.data_cleaners", dq.data,
                       ComprehensiveClean(dq.data, target_col))
                   EXCEPT !.target_column = target_col]
    /\ UNCHANGED <<clf, call, kind, pred, disk, ret>>

\* a report handed back by an assessor that raised nothing
Assessed(df, report) == QReturned(Borrowed(df), None, Some(report))

\* assess_completeness(df) of either DataQualityAssessment
AssessCompletenessCall ==
    /\ dq.op # "none"
    /\ \E module \in QualityModules :
          dq' = QCall("assess_completeness", module, dq.data,
                      Assessed(dq.data,
                          IF module = "ai_models.data_quality_utils"
                          THEN AssessCompleteness(dq.data)
                          ELSE SharedAssessCompleteness(dq.data)))
    /\ UNCHANGED <<clf, call, kind, pred, disk, ret>>

\* assess_consistency(df) of either DataQualityAssessment
AssessConsistencyCall ==
    /\ dq.op # "none"
    /\ \E module \in QualityModules :
          dq' = QCall("assess_consistency", module, dq.data,
                      Assessed(dq.data,
                          IF module = "ai_models.data_quality_utils"
                          THEN AssessConsistency(dq.data)
                          ELSE SharedAssessConsistency(dq.data)))
    /\ UNCHANGED <<clf, call, kind, pred, disk, ret>>

\* assess_validity(df, validation_rules) of the shared DataQualityAssessment
SharedValidityCall(df, validation_rules) ==
    LET Valid(validity) ==
            IF validity.raised # "" THEN QRaised(Borrowed(df), validity.raised)
            ELSE Assessed(df, validity)
    IN  Valid(SharedAssessValidity(df, validation_rules))

\* assess_validity(df, validation_rules) of either DataQualityAssessment
AssessValidityCall ==
    /\ dq.op # "none"
    /\ \E module \in QualityModules, validation_rules \in ValidationRules :
          dq' = [QCall("assess_validity", module, dq.data,
                       IF module = "ai_models.data_quality_utils"
                       THEN Assessed(dq.data, AssessValidity(dq.data, validation_rules))
                       ELSE SharedValidityCall(dq.data, validation_rules))
                   EXCEPT !.validation_rules = validation_rules]
    /\ UNCHANGED <<clf, call, kind, pred, disk, ret>>

\* assess_uniqueness(df) of the shared DataQualityAssessment
AssessUniquenessCall ==
    /\ dq.op # "none"
    /\ dq' = QCall("assess_uniqueness", "ai_models.shared.data_quality_utils", dq.data,
                   Assessed(dq.data, AssessUniqueness(dq.data)))
    /\ UNCHANGED <<clf, call, kind, pred, disk, ret>>

\* assess_outliers(df) of the shared DataQualityAssessment
AssessOutliersCall ==
    /\ dq.op # "none"
    /\ dq' = QCall("assess_outliers", "ai_models.shared.data_quality_utils", dq.data,
                   Assessed(dq.data, AssessOutliers(dq.data)))
    /\ UNCHANGED <<clf, call, kind, pred, disk, ret>>

\* generate_quality_report(df, validation_rules) of either
\* DataQualityAssessment
GenerateQualityReportCall ==
    /\ dq.op # "none"
    /\ \E module \in QualityModules, validation_rules \in ValidationRules :
          dq' = [QCall("generate_quality_report", module, dq.data,
                       IF module = "ai_models.data_quality_utils"
                       THEN Assessed(dq.data,
                                     GenerateQualityReport(dq.data, validation_rules))
                       ELSE SharedGenerateQualityReport(dq.data, validation_rules))
                   EXCEPT !.validation_rules = validation_rules]
    /\ UNCHANGED <<clf, call, kind, pred, disk, ret>>

NoRet == Ret("none", NoFrame, "", None)

\* the classifier that stands by while the predictors are exercised
IdleClassifier == NewLogisticRegression(SCALE \div 100, Capped(1000), DefaultTolerance)

Init ==
    /\ kind \in Kinds
    /\ pred = NewPredictor(kind)
    /\ disk = None
    /\ ret = NoRet
    /\ clf = IdleClassifier
    /\ call = NoCall
    /\ dq = NoQuality

Next ==
    \/ Construct
    \/ TrainCall
    \/ PredictCall
    \/ SaveModelCall
    \/ LoadModelCall
    \/ GetFeatureImportanceCall
    \/ UploadChurnAnalysis
    \/ PredictLoanApprovalCall

Spec == Init /\ [][Next]_vars

\* the classifier exercised on its own
InitFit ==
    /\ InitFitClassifier
    /\ call = NoCall
    /\ kind = "churn_clean"
    /\ pred = NewPredictor(kind)
    /\ disk = None
    /\ ret = NoRet
    /\ dq = NoQuality

NextFit ==
    \/ ClfFit
    \/ ClfFitWeighted
    \/ ClfPredict

SpecFit == InitFit /\ [][NextFit]_vars

\* the assessors and the cleaners exercised on the caller's dataset
InitQuality ==
    /\ dq = NoQuality
    /\ clf = IdleClassifier
    /\ call = NoCall
    /\ kind = "churn_clean"
    /\ pred = NewPredictor(kind)
    /\ disk = None
    /\ ret = NoRet

NextQuality ==
    \/ ReadDataset
    \/ AssessCompletenessCall
    \/ AssessConsistencyCall
    \/ AssessValidityCall
    \/ AssessUniquenessCall
    \/ AssessOutliersCall
    \/ GenerateQualityReportCall
    \/ CleanDatasetCall
    \/ CleanAgainCall
    \/ ComprehensiveCleanCall

SpecQuality == InitQuality /\ [][NextQuality]_vars

\* the training script of retrain_improved_churn.py and the predictor it
\* leaves behind
InitBalanced ==
    /\ kind = "churn_clean"
    /\ pred = NewImprovedChurnPredictor
    /\ disk = None
    /\ ret = NoRet
    /\ clf = IdleClassifier
    /\ call = NoCall
    /\ dq = NoQuality

NextBalanced ==
    \/ ConstructImproved
    \/ TrainWithClassBalancingCall
    \/ PredictCall
    \/ SaveModelCall
    \/ LoadModelCall

SpecBalanced == InitBalanced /\ [][NextBalanced]_vars

\* split_data applied to datasets of the sizes of SplitSizes
InitSplit ==
    /\ kind \in {"churn_legacy", "churn_clean"}
    /\ pred = NewPredictor(kind)
    /\ disk = None
    /\ \E m \in SplitSizes : ret = Ret("read", SplitInput(m), "", None)
    /\ clf = IdleClassifier
    /\ call = NoCall
    /\ dq = NoQuality

NextSplit ==
    \/ ReadRows
    \/ SplitDataCall

SpecSplit == InitSplit /\ [][NextSplit]_vars

\* create_churn_features applied to the datasets of TenureFrames
InitFeatures ==
    /\ kind = "churn_clean"
    /\ pred = NewPredictor(kind)
    /\ disk = None
    /\ \E df \in TenureFrames : ret = Ret("read", df, "", None)
    /\ clf = IdleClassifier
    /\ call = NoCall
    /\ dq = NoQuality

NextFeatures ==
    \/ ReadCustomers
    \/ CreateChurnFeaturesCall

SpecFeatures == InitFeatures /\ [][NextFeatures]_vars

\* the loan pipeline of loan/loan_model_clean.py answering form applications
InitLoanForms ==
    /\ kind = "loan_clean"
    /\ pred = NewPredictor(kind)
    /\ disk = None
    /\ ret = NoRet
    /\ clf = IdleClassifier
    /\ call = NoCall
    /\ dq = NoQuality

NextLoanForms ==
    \/ Construct
    \/ TrainCall
    \/ PredictFormCall

SpecLoanForms == InitLoanForms /\ [][NextLoanForms]_vars

\* ------------------------------------------------------------------------
\* Properties
\* ------------------------------------------------------------------------

\* C1: predict on an object that is not trained raises the 'Model not
\* trained yet' error, returns no prediction and leaves the object as it was.
C1_PredictUntrainedRaises ==
    [][ (ret'.op = "predict" /\ ~pred.is_trained)
          => /\ ret'.raised = "ValueError: Model not trained yet. Call train() first."
             /\ ret'.result = None
             /\ pred' = pred ]_vars

\* a predict call has been refused on an object that a failed train left
\* untrained
C1_Witness ==
    /\ ret.op = "predict"
    /\ ret.raised = "ValueError: Model not trained yet. Call train() first."
    /\ ~pred.is_trained
    /\ kind \in {"churn_clean", "loan_clean", "loan_legacy"}

LifecycleCalls ==
    {"train", "predict", "save_model", "load_model", "get_feature_importance",
     "upload_churn_analysis"}

\* C2: the lifecycle is one-way: no train, predict, save_model, load_model or
\* get_feature_importance call on a trained object leaves it untrained.
C2_LifecycleOneWay ==
    [][ (pred.is_trained /\ ret'.op \in LifecycleCalls) => pred'.is_trained ]_vars

\* a train call has failed on an object that was trained, and the object
\* still is
C2_Witness ==
    /\ ret.op = "train"
    /\ ret.raised # ""
    /\ pred.is_trained

\* the fields a record can lack
RawFields ==
    {"CreditScore", "Age", "Tenure", "amount", "income", "employment_years",
     "credit_score", "ApplicantIncome", "LoanAmount", "Credit_History"}

\* C3: predict on a trained object raises nothing for a record that lacks
\* or adds fields, builds the vector over exactly the training
\* feature_names, and puts 0 where the record lacks the field.
C3_FeatureOrderStable ==
    (ret.op = "predict" /\ pred.is_trained)
      => /\ ret.raised = ""
         /\ IsSome(ret.result)
         /\ ret.result[1].features = pred.feature_names[1]
         /\ Len(ret.result[1].vector) = Len(pred.feature_names[1])
         /\ \A j \in 1..Len(pred.feature_names[1]) :
               (pred.feature_names[1][j] \in RawFields \ SeqToSet(ret.arg.cols))
                  => ret.result[1].vector[j] = 0

\* the tier the thresholds 0.35 and 0.15 give a probability
TierMatches(p, label) ==
    /\ (label = "High") <=> (100 * p >= 35 * SCALE)
    /\ (label = "Medium") <=> (100 * p >= 15 * SCALE /\ 100 * p < 35 * SCALE)
    /\ (label = "Low") <=> (100 * p < 15 * SCALE)

\* C4: every churn probability comes with the tier High iff p >= 0.35,
\* Medium iff 0.15 <= p < 0.35, Low iff p < 0.15, from predict and from the
\* batch upload.
C4_RiskTiers ==
    /\ (ret.op = "predict" /\ kind \in ChurnKinds /\ IsSome(ret.result)
          /\ ~IsNaN(ret.result[1].probability))
         => TierMatches(ret.result[1].probability, ret.result[1].label)
    /\ (ret.op = "upload_churn_analysis")
         => \A i \in 1..Len(ret.result[1].customer_predictions) :
               TierMatches(ret.result[1].customer_predictions[i].probability,
                           ret.result[1].customer_predictions[i].label)

\* the confidence label as a function of the distance d from 0.5
ConfidenceOfDistance(k, d) ==
    IF IsNaN(d) THEN "Low"
    ELSE IF 10 * d > 3 * SCALE THEN "High"
    ELSE IF k = "loan_clean" /\ 10 * d > SCALE THEN "Medium"
    ELSE IF k # "loan_clean" /\ 100 * d > 15 * SCALE THEN "Medium"
    ELSE "Low"

\* C5: a loan result is Approved with prediction 1 iff its probability is
\* >= 0.5, Rejected with prediction 0 otherwise, and its confidence label
\* depends on the distance of the probability from 0.5 alone.
C5_LoanApproval ==
    (ret.op = "predict" /\ kind \in LoanKinds /\ IsSome(ret.result))
      => LET r == ret.result[1]
             approved == ~IsNaN(r.probability) /\ 2 * r.probability >= SCALE
         IN  /\ approved => (r.label = "Approved" /\ r.prediction = 1)
             /\ ~approved => (r.label = "Rejected" /\ r.prediction = 0)
             /\ r.confidence_level = ConfidenceOfDistance(kind, Distance(r.probability))

\* a probability of exactly 0.5 has been approved
C5_Witness ==
    /\ ret.op = "predict"
    /\ kind \in LoanKinds
    /\ IsSome(ret.result)
    /\ 2 * ret.result[1].probability = SCALE
    /\ ret.result[1].label = "Approved"

\* C6: predict of a fitted classifier returns 0 or 1 for every row, and 1
\* exactly when predict_proba of the row is >= 0.5, a probability of exactly
\* 0.5 included.
C6_PredictThreshold ==
    (call.op = "predict")
      => \A r \in 1..Len(call.labels) :
            /\ call.labels[r] \in {0, 1}
            /\ (call.labels[r] = 1) <=> (2 * call.proba[r] >= SCALE)

\* a row of probability exactly 0.5 has been labelled 1
C6_Witness ==
    /\ call.op = "predict"
    /\ 2 * call.proba[1] = SCALE
    /\ call.labels[1] = 1

\* the costs the last fit / fit_weighted call appended
LastRun == SubSeq(clf.cost_history, call.before + 1, Len(clf.cost_history))

\* C7: fit and fit_weighted run at most max_iterations iterations; they stop
\* right after the first iteration whose loss is within tolerance of the
\* previous one, and run exactly max_iterations iterations otherwise.
C7_FitTerminates ==
    (call.op \in {"fit", "fit_weighted"} /\ call.raised = "")
      => LET h == LastRun
             n == Len(h)
         IN  /\ n >= 1
             /\ n <= clf.max_iterations
             /\ \A i \in 2..(n - 1) : ~(Abs(h[i - 1] - h[i]) < clf.tolerance)
             /\ (n < clf.max_iterations)
                  => (n >= 2 /\ Abs(h[n - 1] - h[n]) < clf.tolerance)

\* a training run has stopped on the tolerance before max_iterations
C7_Witness ==
    /\ call.op \in {"fit", "fit_weighted"}
    /\ call.raised = ""
    /\ Len(LastRun) < clf.max_iterations

\* the probabilities the library pipeline may return for a record
ProbabilityDraws(k) == IF k = "loan_improved" THEN PipelineProbabilities ELSE {NaN}

\* C8: after save_model on a trained object, load_model leaves the loading
\* object trained, and its predict returns for every record what the saving
\* object's predict returns.
C8_SaveLoadRoundTrip ==
    (ret.op = "load_model" /\ ret.raised = "")
      => /\ pred.is_trained
         /\ \A record \in Records(kind) : \A p \in ProbabilityDraws(kind) :
               LET loaded == PredictRecord(kind, pred, record, p)
                   saved == PredictRecord(kind, disk[1].saved_by, record, p)
               IN  /\ loaded.raised = saved.raised
                   /\ loaded.result = saved.result

\* a fresh object has loaded the file a trained object wrote
C8_Witness ==
    /\ ret.op = "load_model"
    /\ ret.raised = ""
    /\ IsSome(disk)
    /\ disk[1].saved_by.is_trained
    /\ pred = Loaded(kind, NewPredictor(kind), disk[1].model_data)
    /\ pred.is_trained

\* C9: predict changes no stored state of the object: classifier parameters,
\* feature_names, means, stds and stored encoders are as before the call.
C9_PredictReadOnly ==
    [][ (ret'.op = "predict") => (pred' = pred) ]_vars

TargetColumn(k) == IF k \in ChurnKinds THEN "Exited" ELSE "Loan_Status"

\* C10: train on a dataset without the target column fails with the 'target
\* column not found' error and does not turn an untrained object trained.
C10_TargetRequired ==
    [][ (/\ ret'.op = "train"
         /\ kind \in {"churn_clean", "loan_clean", "loan_legacy"}
         /\ ~HasCol(ret'.arg, TargetColumn(kind)))
          => /\ ret'.raised \in
                  {"ValueError: Target column 'Exited' not found in dataset",
                   "ValueError: Target column 'Loan_Status' not found in dataset"}
             /\ (~pred.is_trained => ~pred'.is_trained) ]_vars

\* ------------------------------------------------------------------------
\* Data quality: the cleaners and the assessors
\* ------------------------------------------------------------------------

\* the same columns, as many rows and the same cell values
SameData(a, b) ==
    /\ a.cols = b.cols
    /\ Len(a.rows) = Len(b.rows)
    /\ \A i \in 1..Len(a.rows) : \A c \in SeqToSet(a.cols) :
           SameCell(a.rows[i][c], b.rows[i][c])

\* a later pass of clean_dataset over the output of the pass before it
LaterPass == dq.op = "clean_dataset" /\ dq.pass >= 2

\* C11: cleaning is idempotent: for every dataset and either setting of the
\* aggressive flag, clean_dataset run on its own output returns it with no
\* row or column removed and no value changed.
C11_CleaningIdempotent ==
    LaterPass =>
        /\ dq.raised = ""
        /\ IsSome(dq.cleaned)
        /\ SameData(dq.cleaned[1], dq.arg)

\* the second pass of the cleaner of ai_models.data_quality_utils removes a
\* column the first pass left in
C11_SecondPassRemovesColumn ==
    /\ LaterPass
    /\ dq.pass = 2
    /\ dq.module = "ai_models.data_quality_utils"
    /\ IsSome(dq.cleaned)
    /\ Len(dq.cleaned[1].cols) < Len(dq.arg.cols)


\* a cleaner returned a dataset for an input that holds the designated
\* target column
CleanedWithTarget ==
    /\ dq.op \in {"clean_dataset", "comprehensive_clean"}
    /\ IsSome(dq.target_column)
    /\ dq.target_column[1] \in SeqToSet(dq.arg.cols)
    /\ IsSome(dq.cleaned)

\* C12: the designated target column is never removed by the cleaner: for
\* every input dataset that holds the target column, even with every target
\* value missing, the cleaned dataset still holds that column.
C12_TargetColumnKept ==
    CleanedWithTarget => dq.target_column[1] \in SeqToSet(dq.cleaned[1].cols)

\* the two EnhancedDataCleaner classes keep a target column whose values
\* are all missing
C12_EnhancedCleanersKeepTarget ==
    (CleanedWithTarget /\ dq.op = "clean_dataset") =>
        dq.target_column[1] \in SeqToSet(dq.cleaned[1].cols)

\* DataCleaner.comprehensive_clean returned a dataset without the all-missing
\* target column it was given
C12_ComprehensiveCleanDropsTarget ==
    /\ CleanedWithTarget
    /\ dq.op = "comprehensive_clean"
    /\ AllNull(dq.arg, dq.target_column[1])
    /\ dq.target_column[1] \notin SeqToSet(dq.cleaned[1].cols)


\* ------------------------------------------------------------------------
\* The batch upload
\* ------------------------------------------------------------------------

\* every row the loop iterated is an entry of customer_predictions or one
\* count of skipped_customers with one message, the rows after a skipped
\* row included
EveryRowAccounted(rows, looped) ==
    /\ Len(looped.customer_predictions) + looped.skipped_customers = Len(rows)
    /\ Len(looped.processing_errors) = looped.skipped_customers
    /\ \A i, j \in 1..Len(looped.processing_errors) :
           /\ looped.processing_errors[i].customer \in 0..(Len(rows) - 1)
           /\ (i < j) =>
                  looped.processing_errors[i].customer < looped.processing_errors[j].customer

\* the answer carries the skip count and the first messages
SkipsReported(looped) ==
    /\ IsSome(looped.data_processing_report)
    /\ looped.data_processing_report[1].skipped_customers = looped.skipped_customers
    /\ looped.data_processing_report[1].processing_errors =
           FirstOf(looped.processing_errors, 10)

\* what the route answers when no row gave a prediction: the 400 error with
\* the first five messages and no report
ErrorsReported(looped) ==
    /\ looped.status = 400
    /\ looped.error = FirstOf(looped.processing_errors, 5)
    /\ IsNone(looped.data_processing_report)

NotAvailableColumns(df) ==
    { c \in SeqToSet(df.cols) :
        /\ Len(df.rows) > 0
        /\ ~IsNumericDtype(df, c)
        /\ \A i \in 1..Len(df.rows) : AsStr(df.rows[i][c]) = "N/A" }

\* the completeness an assessor's completeness report gives column c: the
\* shared assessor reports the count of missing cells
ReportedCompleteness(module, completeness, df, c) ==
    IF module = "ai_models.data_quality_utils"
    THEN completeness.column_completeness[c].completeness_percentage
    ELSE Percentage(Len(df.rows) - completeness.missing_by_column[c], Len(df.rows))

\* C15: for a dataset with one column entirely of "N/A" strings, the quality
\* assessor reports that column's completeness as 0% and the report's
\* recommendations flag the column for removal or imputation.
C15_NotAvailableColumnFlagged ==
    \A c \in NotAvailableColumns(dq.arg) :
        /\ (dq.op = "assess_completeness" /\ IsSome(dq.report))
              => ReportedCompleteness(dq.module, dq.report[1], dq.arg, c) = 0
        /\ (dq.op = "generate_quality_report" /\ IsSome(dq.report))
              => /\ ReportedCompleteness(dq.module, dq.report[1].completeness, dq.arg, c) = 0
                 /\ (dq.module = "ai_models.data_quality_utils")
                       => \E k \in 1..Len(dq.report[1].overall_quality.recommendations) :
                              dq.report[1].overall_quality.recommendations[k]
                                  = LowCompleteness(c, 0)

\* a quality report that gives a column of "N/A" strings a completeness of
\* 100%
C15_NotAvailableColumnComplete ==
    /\ dq.op = "generate_quality_report"
    /\ dq.module = "ai_models.data_quality_utils"
    /\ IsSome(dq.report)
    /\ \E c \in NotAvailableColumns(dq.arg) :
           ReportedCompleteness(dq.module, dq.report[1].completeness, dq.arg, c) = 100 * SCALE


\* C16: for all inputs to a fitted LogisticRegression, every value returned by
\* predict_proba lies in the closed interval [0, 1].
C16_ProbabilityInUnitInterval ==
    (call.op = "predict") =>
        \A r \in 1..Len(call.proba) : call.proba[r] \in 0..SCALE

\* for rows without NaN the value does lie in [0, 1]
C16_FiniteRowsInUnitInterval ==
    (call.op = "predict" /\ \A r \in 1..Len(call.X) : \A j \in 1..Len(call.X[r]) :
                                ~IsNaN(call.X[r][j]))
        => \A r \in 1..Len(call.proba) : call.proba[r] \in 0..SCALE

\* predict_proba answered NaN for a row of NaN
C16_NaNProbability ==
    /\ call.op = "predict"
    /\ Len(call.proba) = 1
    /\ IsNaN(call.X[1][1])
    /\ IsNaN(call.proba[1])


\* the operations of the assessors and clean_dataset
QualityOperations ==
    {"assess_completeness", "assess_consistency", "assess_validity",
     "assess_uniqueness", "assess_outliers", "generate_quality_report",
     "clean_dataset"}

\* C17: every quality-assessor operation and clean_dataset leave the
\* caller's input dataset unchanged: after the call, whether it returned or
\* raised, the dataset has the rows, columns and cell values it was passed
\* with.
C17_DatasetUnchanged ==
    (dq.op \in QualityOperations) => SameFrame(dq.data, dq.arg)

\* clean_dataset returned a dataset that differs from the one it was passed,
\* which the caller still holds as it was
C17_Witness ==
    /\ dq.op = "clean_dataset"
    /\ IsSome(dq.cleaned)
    /\ ~SameData(dq.cleaned[1], dq.arg)
    /\ SameFrame(dq.data, dq.arg)


\* ------------------------------------------------------------------------
\* The churn pipeline: features and recommendations
\* ------------------------------------------------------------------------

\* the record holds the fields of a training row, each with the row's value
SameFieldValues(record, df, i) ==
    /\ SeqToSet(record.cols) = SeqToSet(df.cols) \ {"Surname", "Exited"}
    /\ \A c \in SeqToSet(record.cols) : record.rows[1][c] = df.rows[i][c]

\* the feature values training preprocessing computed for row i of df
TrainingFeatures(k, df, i) ==
    LET Row(pre) == Values(pre.X, pre.feature_names[1])[i]
    IN  Row(ChurnPreprocess(k, df))

\* the predictor holds the feature names that training on df leaves
TrainedOn(k, df) ==
    LET Names(pre) == pre.raised = "" /\ pre.feature_names = pred.feature_names
    IN  Names(ChurnPreprocess(k, df))

\* C18: inference featurizes like training: for a record whose field values
\* equal those of a training row, churn predict passes to the classifier,
\* before normalization, the feature values training preprocessing computed
\* for that row, the engineered features included.
C18_InferenceFeaturizesLikeTraining ==
    (ret.op = "predict" /\ kind = "churn_clean" /\ IsSome(ret.result)) =>
        \A df \in ChurnFrames :
            TrainedOn(kind, df) =>
                \A i \in 1..Len(df.rows) :
                    SameFieldValues(ret.arg, df, i) =>
                        ret.result[1].vector = TrainingFeatures(kind, df, i)

\* predict on the record of a training row gave the classifier a zero for
\* an engineered feature that training computed as non-zero
C18_EngineeredFeatureZeroFilled ==
    /\ ret.op = "predict"
    /\ kind = "churn_clean"
    /\ IsSome(ret.result)
    /\ TrainedOn(kind, ChurnData)
    /\ SameFieldValues(ret.arg, ChurnData, 2)
    /\ \E j \in 1..Len(ret.result[1].features) :
           /\ ret.result[1].features[j] \in {"AgeGroup", "CreditCategory",
                                               "CustomerLifecycleStage"}
           /\ ret.result[1].vector[j] = 0
           /\ TrainingFeatures(kind, ChurnData, 2)[j] # 0


\* the recommendation list that belongs to a risk level
ListOfLevel(risk_level) ==
    CASE risk_level = "High" -> "high-risk"
      [] risk_level = "Medium" -> "medium-risk"
      [] OTHER -> "low-risk"

\* C19: for every churn probability, exactly 0.35 and exactly 0.15 included,
\* the recommendation list churn predict attaches is the one of the bucket of
\* the returned risk_level: the immediate-action list for High, the
\* monitoring list for Medium, the stable-customer list for Low.
C19_RecommendationsMatchRiskLevel ==
    (ret.op = "predict" /\ kind = "churn_clean" /\ IsSome(ret.result)) =>
        ret.result[1].recommendations = ListOfLevel(ret.result[1].label)

\* away from the two thresholds the list is the one of the risk level
C19_MatchAwayFromThresholds ==
    (ret.op = "predict" /\ kind = "churn_clean" /\ IsSome(ret.result)
       /\ ret.result[1].probability \notin {(35 * SCALE) \div 100, (15 * SCALE) \div 100}) =>
        ret.result[1].recommendations = ListOfLevel(ret.result[1].label)

\* a probability of exactly 0.35 or 0.15 whose list is the one of the bucket
\* below the returned risk level
C19_ThresholdMismatch ==
    /\ ret.op = "predict"
    /\ kind = "churn_clean"
    /\ IsSome(ret.result)
    /\ ret.result[1].probability \in {(35 * SCALE) \div 100, (15 * SCALE) \div 100}
    /\ ret.result[1].recommendations # ListOfLevel(ret.result[1].label)


\* C20: after any sequence of fit calls on one LogisticRegression instance,
\* cost_history holds exactly the per-iteration losses of the most recent
\* fit, in iteration order, so its length never exceeds max_iterations.
C20_CostHistoryOfLastFit ==
    (call.op \in {"fit", "fit_weighted"} /\ call.raised = "") =>
        /\ clf.cost_history = CostsAppended(clf, call.before)
        /\ Len(clf.cost_history) <= clf.max_iterations

\* the first fit on an instance does leave exactly its own losses
C20_FirstFitOnly ==
    (call.op \in {"fit", "fit_weighted"} /\ call.raised = "" /\ call.before = 0) =>
        /\ clf.cost_history = CostsAppended(clf, call.before)
        /\ Len(clf.cost_history) <= clf.max_iterations

\* a refit left cost_history longer than max_iterations, the losses of the
\* earlier fit still at its head
C20_HistoryAccumulated ==
    /\ call.op = "fit"
    /\ call.raised = ""
    /\ call.before > 0
    /\ Len(clf.cost_history) > clf.max_iterations


\* the state the object's prediction methods rely on is set and of one length
ShapesConsistent(self) ==
    /\ IsSome(self.feature_names)
    /\ IsSome(self.feature_means)
    /\ IsSome(self.feature_stds)
    /\ IsSome(self.model)
    /\ IsSome(self.model[1].weights)
    /\ Len(self.feature_means[1]) = Len(self.feature_names[1])
    /\ Len(self.feature_stds[1]) = Len(self.feature_names[1])
    /\ Len(self.model[1].weights[1]) = Len(self.feature_names[1])

\* C21: in every state reachable by train, load_model and predict calls,
\* succeeding or failing part-way, a predictor with is_trained set has
\* feature_names, feature_means, feature_stds and the weight vector all set
\* and of the same length.
C21_TrainedShapesAgree ==
    (kind # "loan_improved" /\ pred.is_trained) => ShapesConsistent(pred)

\* a retrain raised on a trained object and left feature_names of another
\* length than the weights fitted before
C21_FailedRetrainMismatch ==
    /\ ret.op = "train"
    /\ ret.raised # ""
    /\ pred.is_trained
    /\ IsSome(pred.feature_names)
    /\ IsSome(pred.model)
    /\ IsSome(pred.model[1].weights)
    /\ Len(pred.feature_names[1]) # Len(pred.model[1].weights[1])


\* the result of the last call, a call of the unified loan entry point
LoanApprovalReturned == ret.op = "predict_loan_approval" /\ IsSome(ret.result)

\* C22: every result returned by the unified loan prediction entry point,
\* whichever path produced it (AI model, rule-based fallback or error
\* fallback), has approval_status 'Approved' iff its approval_probability
\* is >= 0.5.
C22_ApprovedIffAtLeastHalf ==
    LoanApprovalReturned =>
        (ret.result[1].approval_status = "Approved"
            <=> Ge(ret.result[1].approval_probability, SCALE \div 2))

\* the results of the AI model path do follow the 0.5 threshold
C22_ModelPathFollowsThreshold ==
    (LoanApprovalReturned /\ ret.result[1].prediction_method = "ai_model") =>
        (ret.result[1].approval_status = "Approved"
            <=> Ge(ret.result[1].approval_probability, SCALE \div 2))

\* the rules rejected an application they gave a probability of 0.5 or more
C22_RulesRejectAboveHalf ==
    /\ LoanApprovalReturned
    /\ ret.result[1].prediction_method = "rule_based"
    /\ ret.result[1].approval_status = "Rejected"
    /\ ret.result[1].approval_probability >= SCALE \div 2


\* the application and the format flag of the last call of the entry point
Application == [cols |-> ret.arg.cols, rows |-> ret.arg.rows]

\* a trained predictor is available and answers the application: mapping
\* and predict return
ModelAnswers(predictor) ==
    /\ IsSome(predictor)
    /\ predictor[1].is_trained
    /\ ~(ret.arg.use_simple_format /\ Len(ret.arg.rows) = 0)
    /\ PredictLoanLegacy(predictor[1],
           IF Len(ret.arg.rows) = 0 THEN Frame(<<>>, <<Dict([c \in {} |-> 0])>>)
           ELSE IF ret.arg.use_simple_format
           THEN MapSimpleFormToModelFormat(ret.arg.rows[1])
           ELSE Application).raised = ""

\* C23: predict_loan_approval never raises: if no trained predictor is
\* available or the predictor's predict raises it returns the rule-based
\* result, if that also raises it returns the fixed 'Rejected'
\* error-fallback result, and prediction_method names the path taken.
C23_FallbackChain ==
    ret.op = "predict_loan_approval" =>
        /\ ret.raised = ""
        /\ IsSome(ret.result)
        /\ ret.result[1].prediction_method \in {"ai_model", "rule_based", "error_fallback"}
        /\ ret.result[1].prediction_method = "ai_model"
              <=> ModelAnswers(GetLoanPredictor(pred, disk))
        /\ ret.result[1].prediction_method = "rule_based"
              => /\ Len(ret.arg.rows) = 1
                 /\ ret.result[1] = RuleBasedPrediction(ret.arg.rows[1])
        /\ ret.result[1].prediction_method = "error_fallback"
              => /\ Len(ret.arg.rows) = 0
                 /\ ret.result[1] = ErrorFallback
                 /\ ret.result[1].approval_status = "Rejected"

\* predict raised on a trained predictor and the rules answered
C23_RulesAfterPredictRaised ==
    /\ LoanApprovalReturned
    /\ pred.is_trained
    /\ Len(ret.arg.rows) = 1
    /\ ~ModelAnswers(Some(pred))
    /\ ret.result[1].prediction_method = "rule_based"

\* the rules answered for want of a predictor
C23_RulesWithoutPredictor ==
    /\ LoanApprovalReturned
    /\ IsNone(GetLoanPredictor(pred, disk))
    /\ ret.result[1].prediction_method = "rule_based"

\* the error fallback answered
C23_ErrorFallbackTaken ==
    /\ LoanApprovalReturned
    /\ ret.result[1].prediction_method = "error_fallback"

\* the model answered
C23_ModelPathTaken ==
    /\ LoanApprovalReturned
    /\ ret.result[1].prediction_method = "ai_model"


\* the frame clean_dataset hands to _intelligent_imputation
ImputationInput(df, target_column) ==
    OptimizeDataTypes(
        HandleInfiniteValues(
            StandardizeMissingValues(RemoveEmptyData(df, target_column).df).df).df)

\* the fill value the rule of the specification gives a column
SpecifiedFill(df, c) ==
    LET Chosen(col_data, missing_count) ==
            IF ~IsNumericDtype(df, c) THEN Some(StringMode(col_data))
            ELSE IF 10 * missing_count > 3 * Len(df.rows) THEN Some(NumberMode(col_data))
            ELSE IF SkewExceeds(col_data, 1) THEN Some(MedianOf(SortNumbers(col_data)))
            ELSE Some(MeanOf(col_data))
    IN  Chosen(Dropna(Cells(df, c)), NullCount(Cells(df, c)))

\* the columns the imputation fills
ImputedColumns(df, target_column) ==
    { c \in SeqToSet(df.cols) : ~IsTarget(c, target_column) /\ IsSome(FillValue(df, c)) }

\* C24: when the cleaner imputes a numeric column with missing values it
\* uses the mode if the column's missing rate exceeds 30%, otherwise the
\* median if the column's absolute skewness exceeds 1, otherwise the mean;
\* categorical columns are filled with the most frequent value.
C24_ImputationRule ==
    (dq.op = "clean_dataset" /\ dq.module = "ai_models.data_quality_utils"
        /\ dq.raised = "") =>
        LET Ruled(staged) ==
                \A c \in ImputedColumns(staged, dq.target_column) :
                    FillValue(staged, c) = SpecifiedFill(staged, c)
        IN  Ruled(ImputationInput(dq.arg, dq.target_column))

\* on the columns whose skewness is at most 1 the cleaner follows the rule
C24_RuleOnUnskewedColumns ==
    (dq.op = "clean_dataset" /\ dq.module = "ai_models.data_quality_utils"
        /\ dq.raised = "") =>
        LET Ruled(staged) ==
                \A c \in ImputedColumns(staged, dq.target_column) :
                    (IsNumericDtype(staged, c)
                        => ~SkewExceeds(Dropna(Cells(staged, c)), 1))
                    => FillValue(staged, c) = SpecifiedFill(staged, c)
        IN  Ruled(ImputationInput(dq.arg, dq.target_column))

\* a column of skewness between 1 and 2 with a fifth of its values missing
\* was filled with the mean
C24_SkewedColumnFilledWithMean ==
    /\ dq.op = "clean_dataset"
    /\ dq.module = "ai_models.data_quality_utils"
    /\ dq.raised = ""
    /\ SameData(dq.arg, SkewedData)
    /\ FillValue(ImputationInput(dq.arg, dq.target_column), "Balance") = Some(SCALE \div 4)
    /\ SpecifiedFill(ImputationInput(dq.arg, dq.target_column), "Balance") = Some(0)


\* cell (i, c) holds no value: it is null, or one of the placeholder strings
\* _standardize_missing_values recognises
IsMissingCell(df, i, c) ==
    \/ IsNull(df.rows[i][c])
    \/ ~IsNumericDtype(df, c) /\ StrStrip(AsStr(df.rows[i][c])) \in MissingPatterns

\* the cells of the columns other than the target that hold no value
MissingCells(df, target_column) ==
    { ic \in (1..Len(df.rows)) \X SeqToSet(df.cols) :
        ~IsTarget(ic[2], target_column) /\ IsMissingCell(df, ic[1], ic[2]) }

\* a clean_dataset of ai_models/data_quality_utils.py that returned
CleanedByEnhancedCleaner ==
    /\ dq.op = "clean_dataset"
    /\ dq.module = "ai_models.data_quality_utils"
    /\ dq.raised = ""
    /\ IsSome(dq.cleaned)

\* C25: for every input dataset, after clean_dataset returns without error
\* no cell of any non-target column is missing (null, a recognised
\* placeholder string or a non-finite number), including when a column
\* consists entirely of placeholder strings.
C25_NoMissingCellAfterCleaning ==
    CleanedByEnhancedCleaner => MissingCells(dq.cleaned[1], dq.target_column) = {}

\* cleaning returned a column that is null in every row
C25_NullColumnReturned ==
    /\ CleanedByEnhancedCleaner
    /\ \E c \in SeqToSet(dq.cleaned[1].cols) :
          /\ ~IsTarget(c, dq.target_column)
          /\ Len(dq.cleaned[1].rows) > 0
          /\ \A i \in 1..Len(dq.cleaned[1].rows) : IsNull(dq.cleaned[1].rows[i][c])


\* a train_with_class_balancing that reached fit_weighted
BalancedFitReached == ret.op = "train_with_class_balancing" /\ IsSome(ret.result)

\* C26: in class-balanced training the weight handed to fit_weighted for
\* each training row is the balanced class weight of that same row's label:
\* sample weights stay aligned with their rows through the random
\* train/validation/test split.
C26_SampleWeightsAligned ==
    BalancedFitReached =>
        LET Aligned(fit, weight_dict) ==
                /\ Len(fit.sample_weights) = Len(fit.y)
                /\ \A r \in 1..Len(fit.y) : fit.sample_weights[r] = weight_dict[fit.y[r]]
        IN  Aligned(ret.result[1].fit_weighted, ret.result[1].class_weights)

\* fit_weighted receives one weight for each training row
C26_OneWeightPerTrainingRow ==
    BalancedFitReached =>
        Len(ret.result[1].fit_weighted.sample_weights) = Len(ret.result[1].fit_weighted.y)

\* a training row of class 0 was handed the weight of class 1
C26_WeightOfOtherClass ==
    /\ BalancedFitReached
    /\ \E r \in 1..Len(ret.result[1].fit_weighted.y) :
          /\ ret.result[1].fit_weighted.y[r] = 0
          /\ 1 \in DOMAIN ret.result[1].class_weights
          /\ ret.result[1].fit_weighted.sample_weights[r] = ret.result[1].class_weights[1]
          /\ ret.result[1].class_weights[1] # ret.result[1].class_weights[0]


\* assess_completeness of ai_models/data_quality_utils.py has returned
CompletenessAssessed ==
    /\ dq.op = "assess_completeness"
    /\ dq.module = "ai_models.data_quality_utils"
    /\ IsSome(dq.report)

\* generate_quality_report of ai_models/data_quality_utils.py has returned
QualityReported ==
    /\ dq.op = "generate_quality_report"
    /\ dq.module = "ai_models.data_quality_utils"
    /\ IsSome(dq.report)

\* C27: assess_completeness counts each cell at most once as missing: for
\* every dataset, null cells in text columns included, total_missing is at
\* most total_cells, so completeness_percentage and the overall quality
\* score derived from it stay within 0 and 100.
C27_MissingAtMostCells ==
    /\ CompletenessAssessed =>
          /\ dq.report[1].total_missing <= dq.report[1].total_cells
          /\ dq.report[1].completeness_percentage >= 0
          /\ dq.report[1].completeness_percentage <= 100 * SCALE
    /\ QualityReported =>
          /\ dq.report[1].completeness.total_missing
                <= dq.report[1].completeness.total_cells
          /\ dq.report[1].overall_quality.score >= 0
          /\ dq.report[1].overall_quality.score <= 100 * SCALE

\* without a null cell in a text column no cell is counted twice
C27_BoundWithoutNullText ==
    (/\ CompletenessAssessed
     /\ MaskedCells(dq.arg, LAMBDA v : IsNull(v)) = {})
        => /\ dq.report[1].total_missing <= dq.report[1].total_cells
           /\ dq.report[1].completeness_percentage >= 0
           /\ dq.report[1].completeness_percentage <= 100 * SCALE

\* the null cells of text columns were counted as standard and as extended
\* missing, and completeness_percentage fell below zero
C27_NullTextCellCountedTwice ==
    /\ CompletenessAssessed
    /\ MaskedCells(dq.arg, LAMBDA v : IsNull(v)) # {}
    /\ dq.report[1].total_missing > dq.report[1].total_cells
    /\ dq.report[1].completeness_percentage < 0


\* split_data has returned
SplitReturned == ret.op = "split_data" /\ IsSome(ret.result)

\* the rows of X that a part of the split holds, as row numbers
RowsOf(part) == { part[r][1] : r \in 1..Len(part) }

\* the three parts are pairwise disjoint, without a repeated row, together
\* all m rows, train plus validation are floor(0.85 * m) rows, and each X
\* row is still next to its own y
SplitPartitions(X, y, parts) ==
    /\ RowsOf(parts.X_train) \cap RowsOf(parts.X_val) = {}
    /\ RowsOf(parts.X_train) \cap RowsOf(parts.X_test) = {}
    /\ RowsOf(parts.X_val) \cap RowsOf(parts.X_test) = {}
    /\ RowsOf(parts.X_train) \cup RowsOf(parts.X_val) \cup RowsOf(parts.X_test)
          = 1..Len(X)
    /\ Len(parts.X_train) + Len(parts.X_val) + Len(parts.X_test) = Len(X)
    /\ Len(parts.X_train) + Len(parts.X_val) = (85 * Len(X)) \div 100
    /\ Len(parts.y_train) = Len(parts.X_train)
    /\ Len(parts.y_val) = Len(parts.X_val)
    /\ Len(parts.y_test) = Len(parts.X_test)
    /\ \A r \in 1..Len(parts.X_train) : parts.y_train[r] = y[parts.X_train[r][1]]
    /\ \A r \in 1..Len(parts.X_val) : parts.y_val[r] = y[parts.X_val[r][1]]
    /\ \A r \in 1..Len(parts.X_test) : parts.y_test[r] = y[parts.X_test[r][1]]

\* C28 as stated: split_data partitions the rows: the train, validation and
\* test index sets are pairwise disjoint, their union is all m rows, the
\* train set has floor(0.7 * m) rows and train plus validation have
\* floor(0.85 * m) rows, and X and y rows stay paired.
C28_FloorOfSeventyPercent ==
    SplitReturned =>
        /\ SplitPartitions(ret.arg.X, ret.arg.y, ret.result[1])
        /\ Len(ret.result[1].X_train) = (7 * Len(ret.arg.X)) \div 10

\* C28: split_data partitions the rows: the three parts are pairwise
\* disjoint, their union is all m rows, train plus validation have
\* floor(0.85 * m) rows, X and y rows stay paired, and the train set has
\* floor(0.7 * m) rows or one row fewer: floor(0.7 * m) whenever 0.7 * m is
\* not a whole number and for m = 10, and 62 rows for m = 90.
C28_SplitPartitionsRows ==
    SplitReturned =>
        /\ SplitPartitions(ret.arg.X, ret.arg.y, ret.result[1])
        /\ Len(ret.result[1].X_train) \in {(7 * Len(ret.arg.X)) \div 10,
                                           ((7 * Len(ret.arg.X)) \div 10) - 1}
        /\ (7 * Len(ret.arg.X)) % 10 # 0
              => Len(ret.result[1].X_train) = (7 * Len(ret.arg.X)) \div 10
        /\ Len(ret.arg.X) = 10 => Len(ret.result[1].X_train) = 7
        /\ Len(ret.arg.X) = 90 => Len(ret.result[1].X_train) = 62

\* 90 rows were split by a draw other than the identity: 62 train, 14
\* validation and 14 test rows
C28_NinetyRowsSplit ==
    /\ SplitReturned
    /\ Len(ret.arg.X) = 90
    /\ ret.result[1].X_train[1] # <<1>>
    /\ Len(ret.result[1].X_train) = 62
    /\ Len(ret.result[1].X_val) = 14
    /\ Len(ret.result[1].X_test) = 14


\* create_churn_features has returned
FeaturesCreated == ret.op = "create_churn_features" /\ IsSome(ret.result)

\* the code row i of the engineered frame carries for its lifecycle stage
StageCode(enhanced, i) == enhanced.rows[i]["CustomerLifecycleStage"]

\* C29: the integer code given to a customer's lifecycle stage is a fixed
\* function of that customer's tenure: the same tenure receives the same
\* code whatever other rows, and whichever stages, are present in the
\* dataset being engineered.
C29_StageCodeFixedByTenure ==
    FeaturesCreated =>
        \A other \in TenureFrames :
        \A i \in 1..Len(ret.arg.rows), j \in 1..Len(other.rows) :
            ret.arg.rows[i]["Tenure"] = other.rows[j]["Tenure"]
                => StageCode(ret.result[1], i) = StageCode(CreateChurnFeatures(other), j)

\* the code is the place of the customer's stage among the stages present
\* in the dataset, in alphabetical order
C29_StageCodeIsRankAmongPresent ==
    FeaturesCreated =>
        \A i \in 1..Len(ret.arg.rows) :
            StageCode(ret.result[1], i)
              = Cardinality({ stage \in { LifecycleStage(ret.arg.rows[j]["Tenure"]) :
                                            j \in 1..Len(ret.arg.rows) } :
                                /\ stage # LifecycleStage(ret.arg.rows[i]["Tenure"])
                                /\ SortStrings({stage,
                                       LifecycleStage(ret.arg.rows[i]["Tenure"])})[1]
                                     = stage })

\* a New customer is coded 3 among customers of all four stages, the code
\* that a Mature customer carries among Mature and Loyal customers only
C29_NewCodedThree ==
    /\ FeaturesCreated
    /\ \E i \in 1..Len(ret.arg.rows) :
          /\ ret.arg.rows[i]["Tenure"] = 1
          /\ StageCode(ret.result[1], i) = 3


\* predict has answered a form application
FormAnswered == ret.op = "predict_form" /\ IsSome(ret.result)

\* what the applicant is told
Outcome(result) ==
    [approval_probability |-> result.probability,
     approval_status |-> result.label,
     confidence_level |-> result.confidence_level,
     risk_level |-> result.risk_level,
     recommendations |-> result.recommendations]

\* the value of a field of an application, NoPurpose standing for absent
Field(form, c) == IF HasCol(form, c) THEN form.rows[1][c] ELSE NoPurpose

\* two applications that differ at most in purpose
DifferOnlyInPurpose(a, b) ==
    \A c \in {"amount", "income", "employment_years", "credit_score"} :
        HasCol(a, c) /\ HasCol(b, c) /\ a.rows[1][c] = b.rows[1][c]

\* two applications that differ at most in credit scores on the same side
\* of 650
DifferOnlyInCreditSide(a, b) ==
    /\ \A c \in {"amount", "income", "employment_years"} :
          HasCol(a, c) /\ HasCol(b, c) /\ a.rows[1][c] = b.rows[1][c]
    /\ Field(a, "purpose") = Field(b, "purpose")
    /\ (a.rows[1]["credit_score"] >= 650) = (b.rows[1]["credit_score"] >= 650)

\* C30: on a Trained loan pipeline the predict result depends on the
\* application's credit_score only through whether it is >= 650 and does not
\* depend on purpose at all: two applications that differ only in purpose,
\* or only in credit scores on the same side of 650, receive identical
\* probability, status, confidence, risk level and recommendations.
C30_OnlyCreditSideMatters ==
    FormAnswered =>
        \A other \in LoanForms :
            (DifferOnlyInPurpose(ret.arg, other) \/ DifferOnlyInCreditSide(ret.arg, other))
                => LET Same(answer) ==
                           /\ answer.raised = ""
                           /\ IsSome(answer.result)
                           /\ Outcome(answer.result[1]) = Outcome(ret.result[1])
                   IN  Same(PredictLoanClean(pred, other))

\* a rejected application with credit score 640 and purpose Vacation was
\* answered, and so a score of 600 or the purpose Home Purchase would have
\* been too
C30_RejectedBelowThreshold ==
    /\ FormAnswered
    /\ pred.is_trained
    /\ ret.arg.rows[1]["credit_score"] = 640
    /\ Field(ret.arg, "purpose") = "Vacation"
    /\ ret.result[1].label = "Rejected"
    /\ \E k \in 1..Len(ret.result[1].recommendations) :
          ret.result[1].recommendations[k] = "Focus on improving credit score above 650"

\* an approved application with credit score 650
C30_ApprovedAtThreshold ==
    /\ FormAnswered
    /\ ret.arg.rows[1]["credit_score"] = 650
    /\ ret.result[1].label = "Approved"

\* the credit history made the difference: the same application is
\* rejected with a score of 640 though approved with 650
C30_SideDecides ==
    /\ FormAnswered
    /\ ret.arg.rows[1]["credit_score"] = 650
    /\ ret.result[1].label = "Approved"
    /\ \E other \in LoanForms :
          /\ DifferOnlyInPurpose([ret.arg EXCEPT !.rows[1]["credit_score"] = 640], other)
          /\ other.rows[1]["credit_score"] = 640
          /\ PredictLoanClean(pred, other).result[1].probability
                # ret.result[1].probability

====
